---- MODULE Spec2Model ----
(***************************************************************************)
(* The file table of fs/file_table.c: get_empty_filp / alloc_file under    *)
(* the files_stat.max_files ceiling, the f_count reference count with      *)
(* fput / put_filp, the __fput cleanup chain and file_free's RCU-deferred  *)
(* return of the struct file to the filp slab cache.                       *)
(***************************************************************************)
EXTENDS Integers, Sequences, FiniteSets, TLC

\* ------------------------------------------------------------------ bounds
NSlots == 3        \* struct files the filp cache can hand out at a time
Ceiling == 2       \* the value files_stat.max_files is tuned to
Batch == 2         \* percpu_counter batch: a cpu's delta folds at +-Batch
MaxRetain == 2     \* get_file calls explored per struct file
MaxDrops == 1      \* drop_file_write_access runs on a file before its last fput

Threads == {"t1", "t2"}      \* execution contexts, one per cpu
Slots == 1..NSlots
NULL == 0

\* ------------------------------------------------------------ value spaces
FMODE_READ == "FMODE_READ"
FMODE_WRITE == "FMODE_WRITE"
FMODE_PATH == "FMODE_PATH"
FILE_MNT_WRITE_TAKEN == "TAKEN"
FILE_MNT_WRITE_RELEASED == "RELEASED"

\* a struct file_operations pointer: NULL, or a table with or without entries
NullFop == [present |-> FALSE, fasync |-> FALSE, release |-> FALSE]
Fops == {NullFop} \cup
        {[present |-> TRUE, fasync |-> a, release |-> r] : a, r \in BOOLEAN}

\* the inodes a path may name: regular, fifo, char device with/without cdev
Inodes == {[kind |-> "REG", i_cdev |-> FALSE], [kind |-> "FIFO", i_cdev |-> FALSE],
           [kind |-> "CHR", i_cdev |-> TRUE], [kind |-> "CHR", i_cdev |-> FALSE]}
NoInode == [kind |-> "REG", i_cdev |-> FALSE, i_writecount |-> 0, i_readcount |-> 0]

Modes == {{}, {FMODE_READ}, {FMODE_WRITE}, {FMODE_READ, FMODE_WRITE}, {FMODE_PATH}}

\* arguments of alloc_file (path, mode, fop) and the FASYNC bit fcntl sets
\* later; bare: get_empty_filp called by another caller than alloc_file
NoCfg == [bare |-> TRUE, path |-> [kind |-> "REG", i_cdev |-> FALSE], mode |-> {},
          fop |-> NullFop, fasync |-> FALSE]
AllCfgs == {[bare |-> FALSE, path |-> i, mode |-> m, fop |-> o, fasync |-> a] :
              i \in Inodes, m \in Modes, o \in Fops, a \in BOOLEAN}
WriteCfgs == {c \in AllCfgs : /\ c.path.kind \in {"REG", "FIFO"} /\ ~c.fasync
                              /\ FMODE_WRITE \in c.mode /\ c.fop = NullFop}
\* the writable opens, and a read-only open of a regular file
DropCfgs == WriteCfgs \cup
            {c \in AllCfgs : /\ c.path.kind = "REG" /\ ~c.fasync
                             /\ c.mode = {FMODE_READ} /\ c.fop = NullFop}
FewCfgs == {c \in AllCfgs : /\ c.path.kind = "REG" /\ ~c.fasync
                            /\ c.mode = {FMODE_READ, FMODE_WRITE}
                            /\ c.fop = [present |-> TRUE, fasync |-> FALSE,
                                        release |-> TRUE]} \cup {NoCfg}

\* a zeroed struct file, as kmem_cache_zalloc returns it and as it lies in
\* the cache; st is where its memory is: "pool", "live", or "rcu" (queued by
\* call_rcu and waiting for the grace period)
ZeroFile == [st |-> "pool", f_count |-> 0, f_mode |-> {}, FASYNC |-> FALSE,
             f_op |-> NullFop, f_path |-> FALSE, f_cred |-> FALSE,
             f_mnt_write_state |-> {}]

\* what a call saw at entry (exact and approximate count), the get_cred calls
\* it made, the label it left get_empty_filp by, and the values of
\* get_nr_files() and old_max its test at the over label compared
NoSnap == [sum |-> 0, approx |-> 0, cred |-> 0, exit |-> "none", nr |-> 0, old |-> 0]
\* lock-free readers of the file tables (fget-like lookups under rcu_read_lock)
Readers == {"r1", "r2"}
NoReader == [in |-> FALSE, ptr |-> NULL, pre |-> {}]
NoHist == [get_file |-> 0, fput |-> 0, put_filp |-> 0, zero |-> 0, raced |-> FALSE,
           release_rc |-> 0]

\* what f_op->release may return: 0 or an error
ReleaseResults == {0, -1}

VARIABLES
  file,        \* Slots -> struct file
  trace,       \* Slots -> the calls made on behalf of that file, in order
  hist,        \* Slots -> completed get_file / fput / put_filp calls, the
               \*          decrements of f_count that gave 0, whether two
               \*          contexts were about to decrement it at once, and
               \*          what f_op->release returned
  refs,        \* Slots -> references in the hands of holders
  nr_files,    \* the percpu_counter: [count, pcp : Threads -> Int]
  max_files,   \* files_stat.max_files
  mempages,    \* the page count start_kernel hands to files_init, as an
               \*   unsigned long
  old_max,     \* get_empty_filp's static old_max
  msgs,        \* old_max values at which "file-max limit reached" was printed
  cred_usage,  \* references on the credentials taken by get_cred
  inode,       \* Slots -> the inode behind the file's path: kind, i_cdev,
               \*          i_writecount, i_readcount
  mnt_writers, \* Slots -> the writer count of the mount behind the file's path
  pc, tf, cap, cfg, snap, ret,  \* per context: position, file, capable(), args,
                                \* values at entry, returned pointer
  rdr          \* Readers -> the RCU read-side critical section of a lock-free
               \*            reader: inside or not, the struct file pointer it
               \*            picked up, and the callbacks queued before it began

vars == <<file, trace, hist, refs, nr_files, max_files, mempages, old_max, msgs,
          cred_usage,
          inode, mnt_writers, pc, tf, cap, cfg, snap, ret, rdr>>

\* ------------------------------------------------------- percpu_counter
RECURSIVE SumOver(_, _)
SumOver(p, S) == IF S = {} THEN 0
                 ELSE LET c == CHOOSE c \in S : TRUE IN p[c] + SumOver(p, S \ {c})

percpu_counter_add(fbc, cpu, amount) ==
  LET c == fbc.pcp[cpu] + amount IN
  IF c >= Batch \/ c <= -Batch
  THEN [count |-> fbc.count + c, pcp |-> [fbc.pcp EXCEPT ![cpu] = 0]]
  ELSE [count |-> fbc.count, pcp |-> [fbc.pcp EXCEPT ![cpu] = c]]

percpu_counter_inc(fbc, cpu) == percpu_counter_add(fbc, cpu, 1)
percpu_counter_dec(fbc, cpu) == percpu_counter_add(fbc, cpu, -1)
percpu_counter_sum(fbc) == fbc.count + SumOver(fbc.pcp, Threads)
percpu_counter_read_positive(fbc) == IF fbc.count >= 0 THEN fbc.count ELSE 0
percpu_counter_sum_positive(fbc) ==
  IF percpu_counter_sum(fbc) < 0 THEN 0 ELSE percpu_counter_sum(fbc)

get_nr_files == percpu_counter_read_positive(nr_files)
get_max_files == max_files

\* -------------------------------------------------------- unsigned long
\* the target is 32-bit ARM: unsigned long has 32 bits and a page 4096 bytes;
\* NR_FILE is the initializer of files_stat.max_files
BITS_PER_LONG == 32
PAGE_SIZE == 4096
NR_FILE == 8192

\* an unsigned long is kept as two half words, its value hi * Half + lo
Half == 2^(BITS_PER_LONG \div 2)
ulong(n) == [hi |-> (n \div Half) % Half, lo |-> n % Half]
\* a * k and a / d as the machine computes them, for a small k and d: the
\* product loses the bits above the word
ul_mul(a, k) ==
  LET lo == a.lo * k
      hi == a.hi * k + lo \div Half
  IN [hi |-> hi % Half, lo |-> lo % Half]
ul_div(a, d) ==
  [hi |-> a.hi \div d, lo |-> ((a.hi % d) * Half + a.lo) \div d]
ul_gt(a, b) == a.hi > b.hi \/ (a.hi = b.hi /\ a.lo > b.lo)
max_t(a, b) == IF ul_gt(a, b) THEN a ELSE b
\* the number an unsigned long below 2^31 stands for
ul_val(a) == a.hi * Half + a.lo

\* page counts handed to files_init: none, few, around the count that gives
\* NR_FILE, 1 GB and 4 GB of pages, and counts whose product with
\* PAGE_SIZE / 1024 does not fit the word
MemPages ==
  {ulong(0), ulong(1), ulong(20479), ulong(20480), ulong(20482), ulong(20483),
   ulong(262144), ulong(1048575), ulong(1073741823), ulong(1073741824),
   ulong(1073741824 + 20483), [hi |-> Half - 1, lo |-> Half - 1]}

\* ------------------------------------------------------------ small helpers
Ev(w, e) == [w EXCEPT !.tr = Append(@, e)]
Count(s, e) == Cardinality({i \in 1..Len(s) : s[i] = e})
Pos(s, e) == IF \E i \in 1..Len(s) : s[i] = e
             THEN CHOOSE i \in 1..Len(s) : s[i] = e /\ \A j \in 1..(i-1) : s[j] # e
             ELSE 0

special_file(ino) == ino.kind # "REG"
S_ISCHR(ino) == ino.kind = "CHR"

\* the world one call works on: one struct file, the inode and mount behind
\* it, the live counter, the credentials, the record of calls, and what the
\* file's release callback returns when called
World(f) == [fl |-> file[f], ino |-> inode[f], mw |-> mnt_writers[f], ctr |-> nr_files,
             cred |-> cred_usage, tr |-> trace[f], oops |-> FALSE, rc |-> 0]

Commit(f, w) ==
  /\ file' = [file EXCEPT ![f] = w.fl]
  /\ inode' = [inode EXCEPT ![f] = w.ino]
  /\ mnt_writers' = [mnt_writers EXCEPT ![f] = w.mw]
  /\ nr_files' = w.ctr
  /\ cred_usage' = w.cred
  /\ trace' = [trace EXCEPT ![f] = w.tr]


\* ------------------------------------------------ write-access bookkeeping
file_take_write(w) == [w EXCEPT !.fl.f_mnt_write_state = {FILE_MNT_WRITE_TAKEN}]
file_release_write(w) ==
  [w EXCEPT !.fl.f_mnt_write_state = @ \cup {FILE_MNT_WRITE_RELEASED}]
file_check_writeable(fl) ==
  IF fl.f_mnt_write_state = {FILE_MNT_WRITE_TAKEN} THEN 0 ELSE -22

mnt_clone_write(w) == Ev([w EXCEPT !.mw = @ + 1], "mnt_clone_write")
mnt_drop_write(w) == Ev([w EXCEPT !.mw = @ - 1], "mnt_drop_write")
get_write_access(w) == [w EXCEPT !.ino.i_writecount = @ + 1]
put_write_access(w) == Ev([w EXCEPT !.ino.i_writecount = @ - 1], "put_write_access")
i_readcount_inc(w) == Ev([w EXCEPT !.ino.i_readcount = @ + 1], "i_readcount_inc")
i_readcount_dec(w) == Ev([w EXCEPT !.ino.i_readcount = @ - 1], "i_readcount_dec")

\* ------------------------------------------------------------- file_free
\* variant of file_free that forgets percpu_counter_dec
file_free_nodec(w, cpu) == Ev([w EXCEPT !.fl.st = "rcu"], "file_free")

\* variant of file_free that forgets call_rcu
file_free_norcu(w, cpu) ==
  Ev([w EXCEPT !.ctr = percpu_counter_dec(@, cpu)], "file_free")

\* variant of file_free that gives the memory back at once, without call_rcu
file_free_now(w, cpu) ==
  LET w1 == [w EXCEPT !.ctr = percpu_counter_dec(@, cpu), !.cred = @ - 1]
  IN  Ev([w1 EXCEPT !.fl = ZeroFile], "file_free")

\* variant of file_free that drops the credentials itself, before call_rcu
file_free_putcred(w, cpu) ==
  LET w1 == [w EXCEPT !.ctr = percpu_counter_dec(@, cpu), !.cred = @ - 1]
  IN  Ev([w1 EXCEPT !.fl.st = "rcu"], "file_free")

\* percpu_counter_dec on the caller's cpu, file_check_state (warnings only),
\* call_rcu: the memory waits for the grace period
file_free(w, cpu) ==
  LET w1 == [w EXCEPT !.ctr = percpu_counter_dec(@, cpu)]
  IN  Ev([w1 EXCEPT !.fl.st = "rcu"], "file_free")

\* ------------------------------------------------- drop_file_write_access
\* variants of drop_file_write_access: without the file_check_writeable test,
\* and without file_release_write after mnt_drop_write
drop_file_write_access_unguarded(w) ==
  IF ~w.fl.f_path THEN Ev([w EXCEPT !.oops = TRUE], "NULL_deref")
  ELSE LET w1 == put_write_access(Ev(w, "drop_file_write_access")) IN
       IF special_file(w1.ino) THEN w1
       ELSE file_release_write(mnt_drop_write(w1))

drop_file_write_access_norelease(w) ==
  IF ~w.fl.f_path THEN Ev([w EXCEPT !.oops = TRUE], "NULL_deref")
  ELSE LET w1 == put_write_access(Ev(w, "drop_file_write_access")) IN
       IF special_file(w1.ino) THEN w1
       ELSE IF file_check_writeable(w1.fl) # 0 THEN w1
       ELSE mnt_drop_write(w1)

\* variant that returns for a special inode before put_write_access
drop_file_write_access_special_first(w) ==
  IF ~w.fl.f_path THEN Ev([w EXCEPT !.oops = TRUE], "NULL_deref")
  ELSE LET w0 == Ev(w, "drop_file_write_access") IN
       IF special_file(w0.ino) THEN w0
       ELSE LET w1 == put_write_access(w0) IN
            IF file_check_writeable(w1.fl) # 0 THEN w1
            ELSE file_release_write(mnt_drop_write(w1))

\* a dereference of the cleared f_path is recorded in oops and as NULL_deref
drop_file_write_access(w) ==
  IF ~w.fl.f_path THEN Ev([w EXCEPT !.oops = TRUE], "NULL_deref")
  ELSE LET w1 == put_write_access(Ev(w, "drop_file_write_access")) IN
       IF special_file(w1.ino) THEN w1
       ELSE IF file_check_writeable(w1.fl) # 0 THEN w1
       ELSE file_release_write(mnt_drop_write(w1))

\* ------------------------------------------------------------------ __fput
\* variant that calls the fasync entry whether or not FASYNC is set
fput_fasync_always(w) ==
  IF w.fl.f_op.present /\ w.fl.f_op.fasync THEN Ev(w, "fasync") ELSE w

\* if (file->f_flags & FASYNC) and the table has the entry: fasync(-1, file, 0)
fput_fasync(w) ==
  IF w.fl.FASYNC
  THEN IF w.fl.f_op.present /\ w.fl.f_op.fasync THEN Ev(w, "fasync") ELSE w
  ELSE w

\* file->f_op->release(inode, file): the callback and the value it returns
f_op_release(w) == [w |-> Ev(w, "release"), res |-> w.rc]

\* the value release returns is not looked at
fput_release(w) ==
  IF w.fl.f_op.present /\ w.fl.f_op.release THEN f_op_release(w).w ELSE w

\* variant that drops the character device also for an O_PATH file
fput_cdev_put_path(w) ==
  IF S_ISCHR(w.ino) /\ w.ino.i_cdev THEN Ev(w, "cdev_put") ELSE w

fput_cdev_put(w) ==
  IF S_ISCHR(w.ino) /\ w.ino.i_cdev /\ ~(FMODE_PATH \in w.fl.f_mode)
  THEN Ev(w, "cdev_put") ELSE w

\* variant that drops the read count for every readable file, writable or not
fput_readcount_any(w) ==
  IF FMODE_READ \in w.fl.f_mode THEN i_readcount_dec(w) ELSE w

fput_readcount(w) ==
  IF w.fl.f_mode \cap {FMODE_READ, FMODE_WRITE} = {FMODE_READ}
  THEN i_readcount_dec(w) ELSE w

fput_write(w) ==
  IF FMODE_WRITE \in w.fl.f_mode THEN drop_file_write_access(w) ELSE w

fput_clear(w) == Ev([w EXCEPT !.fl.f_path = FALSE], "clear_f_path")

\* dput and mntput return at once when handed a NULL pointer
dput(w, dentry) == IF dentry THEN Ev(w, "dput") ELSE w
mntput(w, mnt) == IF mnt THEN Ev(w, "mntput") ELSE w

\* variant of __fput that returns when the release callback reports an error
__fput_checked(w, cpu) ==
  LET dentry == w.fl.f_path
      mnt == w.fl.f_path
      a == Ev(w, "__fput")
      b == Ev(a, "fsnotify_close")
      c == Ev(b, "eventpoll_release")
      d == Ev(c, "locks_remove_file")
      e == fput_fasync(d)
      g == fput_release(e)
      h == Ev(Ev(g, "security_file_free"), "ima_file_free")
      i == fput_cdev_put(h)
      j == Ev(Ev(i, "fops_put"), "put_pid")
      k == fput_readcount(j)
      l == fput_write(k)
      m == fput_clear(l)
      n == file_free(m, cpu)
  IN  IF g # e /\ f_op_release(e).res # 0 THEN g
      ELSE mntput(dput(n, dentry), mnt)

\* variant of __fput that clears f_path and f_inode before the write access
\* is dropped
__fput_clear_early(w, cpu) ==
  LET dentry == w.fl.f_path
      mnt == w.fl.f_path
      a == Ev(w, "__fput")
      b == Ev(a, "fsnotify_close")
      c == Ev(b, "eventpoll_release")
      d == Ev(c, "locks_remove_file")
      e == fput_fasync(d)
      g == fput_release(e)
      h == Ev(Ev(g, "security_file_free"), "ima_file_free")
      i == fput_cdev_put(h)
      j == Ev(Ev(i, "fops_put"), "put_pid")
      k == fput_readcount(j)
      l == fput_clear(k)
      m == fput_write(l)
      n == file_free(m, cpu)
  IN  mntput(dput(n, dentry), mnt)

\* variant of __fput that disables FASYNC before eventpoll_release
__fput_reordered(w, cpu) ==
  LET dentry == w.fl.f_path
      mnt == w.fl.f_path
      a == Ev(w, "__fput")
      b == Ev(a, "fsnotify_close")
      c == fput_fasync(b)
      d == Ev(c, "eventpoll_release")
      e == Ev(d, "locks_remove_file")
      g == fput_release(e)
      h == Ev(Ev(g, "security_file_free"), "ima_file_free")
      i == fput_cdev_put(h)
      j == Ev(Ev(i, "fops_put"), "put_pid")
      k == fput_readcount(j)
      l == fput_write(k)
      m == fput_clear(l)
      n == file_free(m, cpu)
  IN  mntput(dput(n, dentry), mnt)

__fput(w, cpu) ==
  LET dentry == w.fl.f_path
      mnt == w.fl.f_path
      a == Ev(w, "__fput")
      b == Ev(a, "fsnotify_close")
      c == Ev(b, "eventpoll_release")
      d == Ev(c, "locks_remove_file")
      e == fput_fasync(d)
      g == fput_release(e)
      h == Ev(Ev(g, "security_file_free"), "ima_file_free")
      i == fput_cdev_put(h)
      j == Ev(Ev(i, "fops_put"), "put_pid")
      k == fput_readcount(j)
      l == fput_write(k)
      m == fput_clear(l)
      n == file_free(m, cpu)
  IN  mntput(dput(n, dentry), mnt)

\* variant of put_filp's body that runs the whole of __fput
put_filp_last_full(w, cpu) == __fput(w, cpu)

\* put_filp's body once the count is zero
put_filp_last(w, cpu) == file_free(Ev(w, "security_file_free"), cpu)

\* variant of alloc_file that takes the mount's write claim for every file
\* opened with FMODE_WRITE, special or not
alloc_file_init_anywrite(w, c) ==
  LET a == [w EXCEPT !.fl.f_path = TRUE, !.fl.f_mode = c.mode, !.fl.f_op = c.fop]
      b == IF FMODE_WRITE \in c.mode
           THEN mnt_clone_write(file_take_write(a)) ELSE a
  IN  IF c.mode \cap {FMODE_READ, FMODE_WRITE} = {FMODE_READ}
      THEN i_readcount_inc(b) ELSE b

\* alloc_file's initialisation of the struct file get_empty_filp returned
alloc_file_init(w, c) ==
  LET a == [w EXCEPT !.fl.f_path = TRUE, !.fl.f_mode = c.mode, !.fl.f_op = c.fop]
      b == IF FMODE_WRITE \in c.mode /\ ~special_file(a.ino)
           THEN mnt_clone_write(file_take_write(a)) ELSE a
  IN  IF c.mode \cap {FMODE_READ, FMODE_WRITE} = {FMODE_READ}
      THEN i_readcount_inc(b) ELSE b

atomic_long_dec_and_test(v) == [val |-> v - 1, zero |-> (v - 1 = 0)]

\* ------------------------------------------------------------------- Init
Init ==
  /\ file = [f \in Slots |-> ZeroFile]
  /\ trace = [f \in Slots |-> <<>>]
  /\ hist = [f \in Slots |-> NoHist]
  /\ refs = [f \in Slots |-> 0]
  /\ nr_files = [count |-> 0, pcp |-> [c \in Threads |-> 0]]
  /\ max_files = Ceiling
  /\ mempages = ulong(0)
  /\ old_max = 0
  /\ msgs = {}
  /\ cred_usage = 0
  /\ inode = [f \in Slots |-> NoInode]
  /\ mnt_writers = [f \in Slots |-> 0]
  /\ pc = [t \in Threads |-> "idle"]
  /\ tf = [t \in Threads |-> NULL]
  /\ cap = [t \in Threads |-> FALSE]
  /\ cfg = [t \in Threads |-> NoCfg]
  /\ snap = [t \in Threads |-> NoSnap]
  /\ ret = [t \in Threads |-> NULL]
  /\ rdr = [r \in Readers |-> NoReader]

\* the kernel before start_kernel has called files_init: files_stat holds its
\* static initializer, nr_files is zeroed static storage, no context runs
InitBoot ==
  /\ file = [f \in Slots |-> ZeroFile]
  /\ trace = [f \in Slots |-> <<>>]
  /\ hist = [f \in Slots |-> NoHist]
  /\ refs = [f \in Slots |-> 0]
  /\ nr_files = [count |-> 0, pcp |-> [c \in Threads |-> 0]]
  /\ max_files = NR_FILE
  /\ mempages \in MemPages
  /\ old_max = 0
  /\ msgs = {}
  /\ cred_usage = 0
  /\ inode = [f \in Slots |-> NoInode]
  /\ mnt_writers = [f \in Slots |-> 0]
  /\ pc = [t \in Threads |-> "boot"]
  /\ tf = [t \in Threads |-> NULL]
  /\ cap = [t \in Threads |-> FALSE]
  /\ cfg = [t \in Threads |-> NoCfg]
  /\ snap = [t \in Threads |-> NoSnap]
  /\ ret = [t \in Threads |-> NULL]
  /\ rdr = [r \in Readers |-> NoReader]

Goto(t, l) == pc' = [pc EXCEPT ![t] = l]
Exit(t, e) == snap' = [snap EXCEPT ![t].exit = e]
FreeSlots == {f \in Slots : file[f].st = "pool"}

\* ---------------------------------------------------------- get_empty_filp
\* variant of the first test that never asks capable()
gef_fast_nocap(t, c, privileged) ==
  /\ pc[t] = "idle"
  /\ cap' = [cap EXCEPT ![t] = privileged]
  /\ cfg' = [cfg EXCEPT ![t] = c]
  /\ snap' = [snap EXCEPT ![t] = [sum |-> percpu_counter_sum(nr_files),
                                  approx |-> get_nr_files, cred |-> 0,
                                  exit |-> "running", nr |-> 0, old |-> 0]]
  /\ IF get_nr_files >= max_files
     THEN pc' = [pc EXCEPT ![t] = "gef_slow"] ELSE pc' = [pc EXCEPT ![t] = "gef_alloc"]
  /\ UNCHANGED <<rdr, file, trace, hist, refs, nr_files, max_files, mempages, old_max, msgs,
                 cred_usage, inode, mnt_writers, tf, ret>>

\* variant of the first test that compares the exact sum with the ceiling
gef_fast_exact(t, c, privileged) ==
  /\ pc[t] = "idle"
  /\ cap' = [cap EXCEPT ![t] = privileged]
  /\ cfg' = [cfg EXCEPT ![t] = c]
  /\ snap' = [snap EXCEPT ![t] = [sum |-> percpu_counter_sum(nr_files),
                                  approx |-> get_nr_files, cred |-> 0,
                                  exit |-> "running", nr |-> 0, old |-> 0]]
  /\ IF percpu_counter_sum_positive(nr_files) >= max_files /\ ~privileged
     THEN pc' = [pc EXCEPT ![t] = "gef_slow"] ELSE pc' = [pc EXCEPT ![t] = "gef_alloc"]
  /\ UNCHANGED <<rdr, file, trace, hist, refs, nr_files, max_files, mempages, old_max, msgs,
                 cred_usage, inode, mnt_writers, tf, ret>>

\* entry and the first test: the approximate count against the ceiling, and
\* capable(CAP_SYS_ADMIN) when the count is at or above it
gef_fast(t, c, privileged) ==
  /\ pc[t] = "idle"
  /\ cap' = [cap EXCEPT ![t] = privileged]
  /\ cfg' = [cfg EXCEPT ![t] = c]
  /\ snap' = [snap EXCEPT ![t] = [sum |-> percpu_counter_sum(nr_files),
                                  approx |-> get_nr_files, cred |-> 0,
                                  exit |-> "running", nr |-> 0, old |-> 0]]
  /\ IF get_nr_files >= max_files /\ ~privileged
     THEN Goto(t, "gef_slow") ELSE Goto(t, "gef_alloc")
  /\ UNCHANGED <<rdr, file, trace, hist, refs, nr_files, max_files, mempages, old_max, msgs,
                 cred_usage, inode, mnt_writers, tf, ret>>

\* variant of the expensive check that fails only above the ceiling
gef_slow_strict(t) ==
  /\ pc[t] = "gef_slow"
  /\ IF percpu_counter_sum_positive(nr_files) > max_files
     THEN pc' = [pc EXCEPT ![t] = "gef_over"] ELSE pc' = [pc EXCEPT ![t] = "gef_alloc"]
  /\ UNCHANGED <<rdr, file, trace, hist, refs, nr_files, max_files, mempages, old_max, msgs,
                 cred_usage, inode, mnt_writers, tf, cap, cfg, snap, ret>>

\* the expensive check before failing
gef_slow(t) ==
  /\ pc[t] = "gef_slow"
  /\ IF percpu_counter_sum_positive(nr_files) >= max_files
     THEN Goto(t, "gef_over") ELSE Goto(t, "gef_alloc")
  /\ UNCHANGED <<rdr, file, trace, hist, refs, nr_files, max_files, mempages, old_max, msgs,
                 cred_usage, inode, mnt_writers, tf, cap, cfg, snap, ret>>

\* kmem_cache_zalloc succeeded
gef_alloc(t) ==
  /\ pc[t] = "gef_alloc"
  /\ FreeSlots # {}
  /\ LET f == CHOOSE f \in FreeSlots : \A g \in FreeSlots : f <= g IN
     /\ file' = [file EXCEPT ![f] = [ZeroFile EXCEPT !.st = "live"]]
     /\ tf' = [tf EXCEPT ![t] = f]
  /\ Goto(t, "gef_inc")
  /\ UNCHANGED <<rdr, trace, hist, refs, nr_files, max_files, mempages, old_max, msgs,
                 cred_usage, inode, mnt_writers, cap, cfg, snap, ret>>

\* variant in which the counter was incremented before the allocation and
\* the failure path does not take the increment back
gef_nomem_leak(t) ==
  /\ pc[t] = "gef_alloc"
  /\ nr_files' = percpu_counter_inc(nr_files, t)
  /\ pc' = [pc EXCEPT ![t] = "gef_ret"]
  /\ ret' = [ret EXCEPT ![t] = NULL]
  /\ snap' = [snap EXCEPT ![t].exit = "nomem"]
  /\ UNCHANGED <<rdr, file, trace, hist, refs, max_files, mempages, old_max, msgs,
                 cred_usage, inode, mnt_writers, tf, cap, cfg>>

\* kmem_cache_zalloc returned NULL: goto fail
gef_nomem(t) ==
  /\ pc[t] = "gef_alloc"
  /\ Goto(t, "gef_ret")
  /\ ret' = [ret EXCEPT ![t] = NULL]
  /\ Exit(t, "nomem")
  /\ UNCHANGED <<rdr, file, trace, hist, refs, nr_files, max_files, mempages, old_max, msgs,
                 cred_usage, inode, mnt_writers, tf, cap, cfg>>

\* variant that sets f_count to 1 together with the counter increment, before
\* security_file_alloc is asked
gef_inc_early(t) ==
  /\ pc[t] = "gef_inc"
  /\ nr_files' = percpu_counter_inc(nr_files, t)
  /\ cred_usage' = cred_usage + 1
  /\ file' = [file EXCEPT ![tf[t]].f_cred = TRUE, ![tf[t]].f_count = 1]
  /\ snap' = [snap EXCEPT ![t].cred = @ + 1]
  /\ pc' = [pc EXCEPT ![t] = "gef_sec"]
  /\ UNCHANGED <<rdr, trace, hist, refs, max_files, mempages, old_max, msgs, inode, mnt_writers,
                 tf, cap, cfg, ret>>

\* percpu_counter_inc(&nr_files); f->f_cred = get_cred(cred)
gef_inc(t) ==
  /\ pc[t] = "gef_inc"
  /\ nr_files' = percpu_counter_inc(nr_files, t)
  /\ cred_usage' = cred_usage + 1
  /\ file' = [file EXCEPT ![tf[t]].f_cred = TRUE]
  /\ snap' = [snap EXCEPT ![t].cred = @ + 1]
  /\ Goto(t, "gef_sec")
  /\ UNCHANGED <<rdr, trace, hist, refs, max_files, mempages, old_max, msgs, inode, mnt_writers,
                 tf, cap, cfg, ret>>

\* security_file_alloc allowed the file: f_count = 1, return f
gef_sec_ok(t) ==
  /\ pc[t] = "gef_sec"
  /\ file' = [file EXCEPT ![tf[t]].f_count = 1]
  /\ ret' = [ret EXCEPT ![t] = tf[t]]
  /\ Exit(t, "ok")
  /\ Goto(t, "gef_ret")
  /\ UNCHANGED <<rdr, trace, hist, refs, nr_files, max_files, mempages, old_max, msgs, cred_usage,
                 inode, mnt_writers, tf, cap, cfg>>

\* variant of the fail_sec path that returns the pointer it has just freed
gef_sec_deny_ptr(t) ==
  /\ pc[t] = "gef_sec"
  /\ Commit(tf[t], file_free(World(tf[t]), t))
  /\ ret' = [ret EXCEPT ![t] = tf[t]]
  /\ snap' = [snap EXCEPT ![t].exit = "denied"]
  /\ pc' = [pc EXCEPT ![t] = "gef_ret"]
  /\ UNCHANGED <<rdr, hist, refs, max_files, mempages, old_max, msgs, tf, cap, cfg>>

\* variant of the fail_sec path that ends the file as put_filp does, with
\* security_file_free before file_free
gef_sec_deny_putfilp(t) ==
  /\ pc[t] = "gef_sec"
  /\ Commit(tf[t], put_filp_last(World(tf[t]), t))
  /\ ret' = [ret EXCEPT ![t] = NULL]
  /\ Exit(t, "denied")
  /\ Goto(t, "gef_ret")
  /\ UNCHANGED <<rdr, hist, refs, max_files, mempages, old_max, msgs, tf, cap, cfg>>

\* security_file_alloc denied it: fail_sec: file_free(f); return NULL
gef_sec_deny(t) ==
  /\ pc[t] = "gef_sec"
  /\ Commit(tf[t], file_free(World(tf[t]), t))
  /\ ret' = [ret EXCEPT ![t] = NULL]
  /\ Exit(t, "denied")
  /\ Goto(t, "gef_ret")
  /\ UNCHANGED <<rdr, hist, refs, max_files, mempages, old_max, msgs, tf, cap, cfg>>

\* over: if (get_nr_files() > old_max), else goto fail
gef_over(t) ==
  /\ pc[t] = "gef_over"
  /\ IF get_nr_files > old_max
     THEN /\ snap' = [snap EXCEPT ![t].nr = get_nr_files, ![t].old = old_max]
          /\ Goto(t, "gef_print")
          /\ UNCHANGED ret
     ELSE /\ snap' = [snap EXCEPT ![t].nr = get_nr_files, ![t].old = old_max,
                                  ![t].exit = "over"]
          /\ ret' = [ret EXCEPT ![t] = NULL]
          /\ Goto(t, "gef_ret")
  /\ UNCHANGED <<rdr, file, trace, hist, refs, nr_files, max_files, mempages, old_max, msgs,
                 cred_usage, inode, mnt_writers, tf, cap, cfg>>

\* pr_info("VFS: file-max limit %lu reached\n", get_max_files()); msgs keeps
\* the old_max each message was printed for, and whether one had been printed
\* for it before
gef_print(t) ==
  /\ pc[t] = "gef_print"
  /\ msgs' = msgs \cup {[at |-> snap[t].old,
                         twice |-> [at |-> snap[t].old, twice |-> FALSE] \in msgs]}
  /\ Goto(t, "gef_store")
  /\ UNCHANGED <<rdr, file, trace, hist, refs, nr_files, max_files, mempages, old_max,
                 cred_usage, inode, mnt_writers, tf, cap, cfg, snap, ret>>

\* old_max = get_nr_files(); goto fail
gef_store(t) ==
  /\ pc[t] = "gef_store"
  /\ old_max' = get_nr_files
  /\ ret' = [ret EXCEPT ![t] = NULL]
  /\ Exit(t, "over")
  /\ Goto(t, "gef_ret")
  /\ UNCHANGED <<rdr, file, trace, hist, refs, nr_files, max_files, mempages, msgs,
                 cred_usage, inode, mnt_writers, tf, cap, cfg>>

\* files_init without the max_t against NR_FILE
files_init_nomax ==
  /\ \A t \in Threads : pc[t] = "boot"
  /\ LET n == ul_div(ul_mul(mempages, PAGE_SIZE \div 1024), 10) IN
       max_files' = ul_val(n)
  /\ nr_files' = [count |-> 0, pcp |-> [c \in Threads |-> 0]]
  /\ pc' = [t \in Threads |-> "idle"]
  /\ UNCHANGED <<rdr, file, trace, hist, refs, mempages, old_max, msgs, cred_usage,
                 inode, mnt_writers, tf, cap, cfg, snap, ret>>

\* files_init(mempages), run once by start_kernel before any other context:
\* the filp cache is created, max_files is computed and the counter is set up
files_init ==
  /\ \A t \in Threads : pc[t] = "boot"
  /\ LET n == ul_div(ul_mul(mempages, PAGE_SIZE \div 1024), 10) IN
       max_files' = ul_val(max_t(n, ulong(NR_FILE)))
  /\ nr_files' = [count |-> 0, pcp |-> [c \in Threads |-> 0]]
  /\ pc' = [t \in Threads |-> "idle"]
  /\ UNCHANGED <<rdr, file, trace, hist, refs, mempages, old_max, msgs, cred_usage,
                 inode, mnt_writers, tf, cap, cfg, snap, ret>>

Idle(t) ==
  /\ Goto(t, "idle")
  /\ tf' = [tf EXCEPT ![t] = NULL]
  /\ cap' = [cap EXCEPT ![t] = FALSE]
  /\ cfg' = [cfg EXCEPT ![t] = NoCfg]
  /\ snap' = [snap EXCEPT ![t] = NoSnap]
  /\ ret' = [ret EXCEPT ![t] = NULL]

\* get_empty_filp returned NULL to its caller (alloc_file returns NULL too)
ret_null(t) ==
  /\ pc[t] = "gef_ret" /\ ret[t] = NULL
  /\ Idle(t)
  /\ UNCHANGED <<rdr, file, trace, hist, refs, nr_files, max_files, mempages, old_max, msgs,
                 cred_usage, inode, mnt_writers>>

\* get_empty_filp returned a file to a caller other than alloc_file
ret_file(t) ==
  /\ pc[t] = "gef_ret" /\ ret[t] # NULL /\ cfg[t].bare
  /\ refs' = [refs EXCEPT ![ret[t]] = 1]
  /\ Idle(t)
  /\ UNCHANGED <<rdr, file, trace, hist, nr_files, max_files, mempages, old_max, msgs,
                 cred_usage, inode, mnt_writers>>

\* alloc_file after get_empty_filp returned the file; the caller has taken
\* write access on the inode for a writable open, and sets FASYNC by fcntl
alloc_file(t) ==
  /\ pc[t] = "gef_ret" /\ ret[t] # NULL /\ ~cfg[t].bare
  /\ LET w0 == [World(ret[t]) EXCEPT !.ino.kind = cfg[t].path.kind,
                                       !.ino.i_cdev = cfg[t].path.i_cdev]
         w1 == IF FMODE_WRITE \in cfg[t].mode THEN get_write_access(w0) ELSE w0
         w2 == alloc_file_init(w1, cfg[t])
     IN  Commit(ret[t], [w2 EXCEPT !.fl.FASYNC = cfg[t].fasync])
  /\ refs' = [refs EXCEPT ![ret[t]] = 1]
  /\ Idle(t)
  /\ UNCHANGED <<rdr, hist, max_files, mempages, old_max, msgs>>

\* ------------------------------------------------------- get_file (retain)
get_file(t, f) ==
  /\ pc[t] = "idle" /\ refs[f] > 0
  /\ hist[f].get_file < MaxRetain
  /\ file' = [file EXCEPT ![f].f_count = @ + 1]
  /\ refs' = [refs EXCEPT ![f] = @ + 1]
  /\ hist' = [hist EXCEPT ![f].get_file = @ + 1]
  /\ UNCHANGED <<rdr, trace, nr_files, max_files, mempages, old_max, msgs, cred_usage, inode,
                 mnt_writers, pc, tf, cap, cfg, snap, ret>>

\* -------------------------------------------------------------------- fput
\* another context is about to decrement the same f_count
Racing(t) == \E u \in Threads \ {t} :
               pc[u] \in {"fput_dec", "put_filp_dec"} /\ tf[u] = tf[t]

\* a holder calls fput(file) and so gives up its reference
fput(t, f) ==
  /\ pc[t] = "idle" /\ refs[f] > 0 /\ file[f].f_path
  /\ refs' = [refs EXCEPT ![f] = @ - 1]
  /\ tf' = [tf EXCEPT ![t] = f]
  /\ Goto(t, "fput_dec")
  /\ UNCHANGED <<rdr, file, trace, hist, nr_files, max_files, mempages, old_max, msgs, cred_usage,
                 inode, mnt_writers, cap, cfg, snap, ret>>

\* what fput does with the result r of the decrement
fput_test(t, r) ==
  /\ file' = [file EXCEPT ![tf[t]].f_count = r.val]
  /\ IF r.zero
     THEN /\ Goto(t, "fput_last")
          /\ hist' = [hist EXCEPT ![tf[t]].zero = @ + 1,
                                  ![tf[t]].raced = @ \/ Racing(t)]
          /\ UNCHANGED <<tf, cap, cfg, snap, ret>>
     ELSE /\ hist' = [hist EXCEPT ![tf[t]].fput = @ + 1,
                                  ![tf[t]].raced = @ \/ Racing(t)]
          /\ Idle(t)
  /\ UNCHANGED <<rdr, trace, refs, nr_files, max_files, mempages, old_max, msgs, cred_usage,
                 inode, mnt_writers>>

\* variants of fput: the test made on the value before the decrement, a test
\* that already succeeds with one reference left, and no test at all
fput_dec_pre(t) ==
  /\ pc[t] = "fput_dec"
  /\ fput_test(t, [val |-> file[tf[t]].f_count - 1, zero |-> file[tf[t]].f_count = 0])

fput_dec_early(t) ==
  /\ pc[t] = "fput_dec"
  /\ fput_test(t, [val |-> file[tf[t]].f_count - 1, zero |-> file[tf[t]].f_count - 1 <= 1])

fput_dec_always(t) ==
  /\ pc[t] = "fput_dec"
  /\ fput_test(t, [val |-> file[tf[t]].f_count - 1, zero |-> TRUE])

\* atomic_long_dec_and_test(&file->f_count): return unless it gave zero
fput_dec(t) ==
  /\ pc[t] = "fput_dec"
  /\ fput_test(t, atomic_long_dec_and_test(file[tf[t]].f_count))

\* variant of fput that returns when the count is zero and leaves __fput to
\* be run later
fput_last_deferred(t) ==
  /\ pc[t] = "fput_last"
  /\ hist' = [hist EXCEPT ![tf[t]].fput = @ + 1]
  /\ Idle(t)
  /\ UNCHANGED <<rdr, file, trace, refs, nr_files, max_files, mempages, old_max, msgs,
                 cred_usage, inode, mnt_writers>>

\* the count was zero: __fput(file), and fput returns
fput_last(t) ==
  /\ pc[t] = "fput_last"
  /\ \E rc \in ReleaseResults :
       LET w == __fput([World(tf[t]) EXCEPT !.rc = rc], t) IN
       /\ Commit(tf[t], w)
       /\ hist' = [hist EXCEPT ![tf[t]].fput = @ + 1,
                               ![tf[t]].release_rc =
                                  IF Count(w.tr, "release") > Count(trace[tf[t]], "release")
                                  THEN rc ELSE 0]
  /\ Idle(t)
  /\ UNCHANGED <<rdr, refs, max_files, mempages, old_max, msgs>>

\* ---------------------------------------------------------------- put_filp
put_filp(t, f) ==
  /\ pc[t] = "idle" /\ refs[f] > 0
  /\ refs' = [refs EXCEPT ![f] = @ - 1]
  /\ tf' = [tf EXCEPT ![t] = f]
  /\ Goto(t, "put_filp_dec")
  /\ UNCHANGED <<rdr, file, trace, hist, nr_files, max_files, mempages, old_max, msgs, cred_usage,
                 inode, mnt_writers, cap, cfg, snap, ret>>

put_filp_dec(t) ==
  /\ pc[t] = "put_filp_dec"
  /\ LET r == atomic_long_dec_and_test(file[tf[t]].f_count) IN
     /\ file' = [file EXCEPT ![tf[t]].f_count = r.val]
     /\ IF r.zero
        THEN /\ Goto(t, "put_filp_last")
             /\ hist' = [hist EXCEPT ![tf[t]].zero = @ + 1,
                                     ![tf[t]].raced = @ \/ Racing(t)]
             /\ UNCHANGED <<tf, cap, cfg, snap, ret>>
        ELSE /\ hist' = [hist EXCEPT ![tf[t]].put_filp = @ + 1,
                                     ![tf[t]].raced = @ \/ Racing(t)]
             /\ Idle(t)
  /\ UNCHANGED <<rdr, trace, refs, nr_files, max_files, mempages, old_max, msgs, cred_usage,
                 inode, mnt_writers>>

\* the count was zero: security_file_free(file); file_free(file)
put_filp_zero(t) ==
  /\ pc[t] = "put_filp_last"
  /\ Commit(tf[t], put_filp_last(World(tf[t]), t))
  /\ hist' = [hist EXCEPT ![tf[t]].put_filp = @ + 1]
  /\ Idle(t)
  /\ UNCHANGED <<rdr, refs, max_files, mempages, old_max, msgs>>

\* ------------------------------------------- a second path dropping write access
\* a holder gives up the file's write access through drop_file_write_access
\* before the last fput
early_drop(t, f) ==
  /\ pc[t] = "idle" /\ refs[f] > 0 /\ file[f].f_path
  /\ FMODE_WRITE \in file[f].f_mode
  /\ Count(trace[f], "drop_file_write_access") < MaxDrops
  /\ Commit(f, drop_file_write_access(World(f)))
  /\ UNCHANGED <<rdr, hist, refs, max_files, mempages, old_max, msgs, pc, tf, cap, cfg, snap, ret>>

\* ----------------------------------------------------------- file_free_rcu
\* the grace period of the callback queued for f is over when every read-side
\* critical section that was under way at call_rcu has ended
GracePeriodOver(f) == \A r \in Readers : rdr[r].in => f \in rdr[r].pre

\* variant of the callback that frees the memory without put_cred
file_free_rcu_noput(f) ==
  /\ file[f].st = "rcu"
  /\ GracePeriodOver(f)
  /\ file' = [file EXCEPT ![f] = ZeroFile]
  /\ trace' = [trace EXCEPT ![f] = <<>>]
  /\ hist' = [hist EXCEPT ![f] = NoHist]
  /\ inode' = [inode EXCEPT ![f] = NoInode]
  /\ mnt_writers' = [mnt_writers EXCEPT ![f] = 0]
  /\ rdr' = [r \in Readers |-> [rdr[r] EXCEPT !.pre = @ \ {f}]]
  /\ UNCHANGED <<refs, nr_files, max_files, mempages, old_max, msgs, cred_usage,
                 pc, tf, cap, cfg, snap, ret>>

\* the callback call_rcu queued, run after the grace period:
\* put_cred(f->f_cred); kmem_cache_free(filp_cachep, f)
file_free_rcu(f) ==
  /\ file[f].st = "rcu"
  /\ GracePeriodOver(f)
  /\ cred_usage' = cred_usage - 1
  /\ file' = [file EXCEPT ![f] = ZeroFile]
  /\ trace' = [trace EXCEPT ![f] = <<>>]
  /\ hist' = [hist EXCEPT ![f] = NoHist]
  /\ inode' = [inode EXCEPT ![f] = NoInode]
  /\ mnt_writers' = [mnt_writers EXCEPT ![f] = 0]
  /\ rdr' = [r \in Readers |-> [rdr[r] EXCEPT !.pre = @ \ {f}]]
  /\ UNCHANGED <<refs, nr_files, max_files, mempages, old_max, msgs, pc, tf, cap, cfg, snap, ret>>

\* ------------------------------------------------------- lock-free readers
\* rcu_read_lock: callbacks already queued need not wait for this section
rcu_read_lock(r) ==
  /\ ~rdr[r].in
  /\ rdr' = [rdr EXCEPT ![r] = [in |-> TRUE, ptr |-> NULL,
                                pre |-> {f \in Slots : file[f].st = "rcu"}]]
  /\ UNCHANGED <<file, trace, hist, refs, nr_files, max_files, mempages, old_max, msgs,
                 cred_usage, inode, mnt_writers, pc, tf, cap, cfg, snap, ret>>

\* rcu_dereference of a table entry: a file some holder still has installed
rcu_dereference(r, f) ==
  /\ rdr[r].in /\ rdr[r].ptr = NULL
  /\ refs[f] > 0
  /\ rdr' = [rdr EXCEPT ![r].ptr = f]
  /\ UNCHANGED <<file, trace, hist, refs, nr_files, max_files, mempages, old_max, msgs,
                 cred_usage, inode, mnt_writers, pc, tf, cap, cfg, snap, ret>>

rcu_read_unlock(r) ==
  /\ rdr[r].in
  /\ rdr' = [rdr EXCEPT ![r] = NoReader]
  /\ UNCHANGED <<file, trace, hist, refs, nr_files, max_files, mempages, old_max, msgs,
                 cred_usage, inode, mnt_writers, pc, tf, cap, cfg, snap, ret>>

\* ------------------------------------------------------------ specifications
Acquire(t, cfgs) == \E c \in cfgs, p \in BOOLEAN : gef_fast(t, c, p)

\* the steps of a call under way
InGef(t) ==
  \/ gef_slow(t) \/ gef_alloc(t) \/ gef_nomem(t) \/ gef_inc(t)
  \/ gef_sec_ok(t) \/ gef_sec_deny(t) \/ ret_null(t)

\* the steps of a call that went on from its first check
PastCheck(t) ==
  \/ gef_alloc(t) \/ gef_nomem(t) \/ gef_inc(t)
  \/ gef_sec_ok(t) \/ gef_sec_deny(t) \/ ret_null(t)

InAcquire(t) == InGef(t) \/ ret_file(t) \/ alloc_file(t)

InRelease(t) == fput_dec(t) \/ fput_last(t) \/ put_filp_dec(t) \/ put_filp_zero(t)

Alone(t) == \A u \in Threads \ {t} : pc[u] = "idle"
NoFile == \A f \in Slots : file[f].st = "pool"
\* no struct file in use, and at most one waiting for its grace period
NoLiveFile ==
  /\ \A f \in Slots : file[f].st # "live"
  /\ \A f, g \in Slots : file[f].st = "rcu" /\ file[g].st = "rcu" => f = g

\* one file at a time, of every kind, mode and operation table; a call starts
\* when no other is under way; RCU callbacks run in between
Next ==
  \/ \E t \in Threads :
       \/ Alone(t) /\ NoFile /\ Acquire(t, AllCfgs \cup {NoCfg})
       \/ InAcquire(t)
       \/ Alone(t) /\ \E f \in Slots : get_file(t, f)
       \/ Alone(t) /\ \E f \in Slots : fput(t, f)
       \/ Alone(t) /\ \E f \in Slots : put_filp(t, f)
       \/ InRelease(t)
  \/ \E f \in Slots : file_free_rcu(f)

Spec == Init /\ [][Next]_vars

\* many files against the ceiling, from get_empty_filp's other callers and
\* released by put_filp; a call starts when no other is under way
NextAdmit ==
  \/ \E t \in Threads :
       \/ Alone(t) /\ Acquire(t, {NoCfg})
       \/ InGef(t) \/ ret_file(t)
       \/ gef_over(t) \/ gef_print(t) \/ gef_store(t)
       \/ Alone(t) /\ \E f \in Slots : put_filp(t, f)
       \/ put_filp_dec(t) \/ put_filp_zero(t)
  \/ \E f \in Slots : file_free_rcu(f)

SpecAdmit == Init /\ [][NextAdmit]_vars

\* one file at a time, writable or read-only; a holder may drop the write
\* access of a writable one before the last fput; a call starts when no other
\* is under way
NextDrop ==
  \/ \E t \in Threads :
       \/ Alone(t) /\ NoFile /\ Acquire(t, DropCfgs)
       \/ InGef(t) \/ alloc_file(t)
       \/ Alone(t) /\ \E f \in Slots : get_file(t, f)
       \/ Alone(t) /\ \E f \in Slots : early_drop(t, f)
       \/ Alone(t) /\ \E f \in Slots : fput(t, f)
       \/ fput_dec(t) \/ fput_last(t)
  \/ \E f \in Slots : file_free_rcu(f)

SpecDrop == Init /\ [][NextDrop]_vars

\* one file shared by the contexts, whose calls interleave at every step
NextConc ==
  \/ \E t \in Threads :
       \/ Alone(t) /\ NoFile /\ Acquire(t, FewCfgs)
       \/ InAcquire(t)
       \/ \E f \in Slots : get_file(t, f)
       \/ \E f \in Slots : fput(t, f)
       \/ \E f \in Slots : put_filp(t, f)
       \/ InRelease(t)
  \/ \E f \in Slots : file_free_rcu(f)

SpecConc == Init /\ [][NextConc]_vars

\* SpecConc with the scheduling the kernel gives: a context that saw its
\* decrement give zero goes on to run __fput or put_filp's body, and the
\* callback queued by call_rcu is run once its grace period is over
Fairness ==
  /\ \A t \in Threads : WF_vars(fput_last(t)) /\ WF_vars(put_filp_zero(t))
  /\ \A f \in Slots : WF_vars(file_free_rcu(f))

SpecLive == Init /\ [][NextConc]_vars /\ Fairness

\* the other contexts are idle, on their way through the over label, or about
\* to hand the result of get_empty_filp to their caller
OthersOver(t) ==
  \A u \in Threads \ {t} :
    pc[u] \in {"idle", "gef_over", "gef_print", "gef_store", "gef_ret"}

\* get_empty_filp calls up to and at the ceiling, a call starting while
\* others are at the over label or returning, and their steps interleaving;
\* the files returned stay open
NextOver ==
  \/ \E t \in Threads :
       \/ OthersOver(t) /\ Acquire(t, {NoCfg})
       \/ InGef(t) \/ ret_file(t)
       \/ gef_over(t) \/ gef_print(t) \/ gef_store(t)
  \/ \E f \in Slots : file_free_rcu(f)

SpecOver == Init /\ [][NextOver]_vars

\* the kernel from boot: files_init, then files from get_empty_filp's other
\* callers, given back by put_filp; a call starts when no other is under way;
\* the ceiling files_init sets is out of reach of the files there are
NextBoot ==
  \/ files_init
  \/ \E t \in Threads :
       \/ Alone(t) /\ Acquire(t, {NoCfg})
       \/ PastCheck(t) \/ ret_file(t)
       \/ Alone(t) /\ \E f \in Slots : put_filp(t, f)
       \/ put_filp_dec(t) \/ put_filp_zero(t)
  \/ \E f \in Slots : file_free_rcu(f)

SpecBoot == InitBoot /\ [][NextBoot]_vars

\* get_empty_filp and put_filp calls of all contexts, on several files, whose
\* steps interleave freely with each other and with the RCU callbacks; the
\* callers hold CAP_SYS_ADMIN, so that the ceiling turns none of them away
NextMix ==
  \/ \E t \in Threads :
       \/ gef_fast(t, NoCfg, TRUE)
       \/ PastCheck(t) \/ ret_file(t)
       \/ \E f \in Slots : put_filp(t, f)
       \/ put_filp_dec(t) \/ put_filp_zero(t)
  \/ \E f \in Slots : file_free_rcu(f)

SpecMix == Init /\ [][NextMix]_vars

\* get_empty_filp calls of callers without CAP_SYS_ADMIN only, whose steps
\* interleave freely: the limit check of one may fall between the check and
\* the increment of another; max_files stays as tuned, the files stay open
NextRace ==
  \/ \E t \in Threads :
       \/ gef_fast(t, NoCfg, FALSE)
       \/ InGef(t) \/ ret_file(t)
       \/ gef_over(t) \/ gef_print(t) \/ gef_store(t)
  \/ \E f \in Slots : file_free_rcu(f)

SpecRace == Init /\ [][NextRace]_vars

\* many files against the ceiling, from alloc_file and from get_empty_filp's
\* other callers, all without CAP_SYS_ADMIN, ended by fput or by put_filp; a
\* call starts when no other is under way
NextCred ==
  \/ \E t \in Threads :
       \/ Alone(t) /\ \E c \in FewCfgs : gef_fast(t, c, FALSE)
       \/ InAcquire(t)
       \/ gef_over(t) \/ gef_print(t) \/ gef_store(t)
       \/ Alone(t) /\ \E f \in Slots : fput(t, f)
       \/ Alone(t) /\ \E f \in Slots : put_filp(t, f)
       \/ InRelease(t)
  \/ \E f \in Slots : file_free_rcu(f)

SpecCred == Init /\ [][NextCred]_vars

\* files torn down while lock-free readers are inside read-side critical
\* sections; one file in use at a time, opened while at most one earlier
\* file waits for its grace period; a call starts when no other is under way
NextRcu ==
  \/ \E t \in Threads :
       \/ Alone(t) /\ NoLiveFile /\ Acquire(t, FewCfgs \ {NoCfg})
       \/ InGef(t) \/ alloc_file(t)
       \/ Alone(t) /\ \E f \in Slots : fput(t, f)
       \/ fput_dec(t) \/ fput_last(t)
  \/ \E r \in Readers :
       \/ rcu_read_lock(r)
       \/ \E f \in Slots : rcu_dereference(r, f)
       \/ rcu_read_unlock(r)
  \/ \E f \in Slots : file_free_rcu(f)

SpecRcu == Init /\ [][NextRcu]_vars

\* ------------------------------------------------------------------ claims
Tr(f, e) == Count(trace[f], e)
At(f, e) == Pos(trace[f], e)
Sum == percpu_counter_sum(nr_files)

\* the calls __fput and put_filp make when the count reached zero
TeardownSteps ==
  {"__fput", "fsnotify_close", "eventpoll_release", "locks_remove_file", "fasync",
   "release", "security_file_free", "ima_file_free", "cdev_put", "fops_put",
   "put_pid", "i_readcount_dec", "drop_file_write_access", "put_write_access",
   "mnt_drop_write", "clear_f_path", "dput", "mntput"}
NoTeardownStep(f) == \A i \in 1..Len(trace[f]) : trace[f][i] \notin TeardownSteps

NoPutFilp(f) ==
  /\ hist[f].put_filp = 0
  /\ \A t \in Threads : ~(pc[t] \in {"put_filp_dec", "put_filp_last"} /\ tf[t] = f)

\* C1: for a file released by fput only, __fput has run exactly when the
\* completed fput calls number one more than the get_file calls, and it has
\* never run more than once.
C1_RefcountConservation ==
  \A f \in Slots :
    NoPutFilp(f) =>
      /\ Tr(f, "__fput") <= 1
      /\ (Tr(f, "__fput") = 1 <=> hist[f].fput = 1 + hist[f].get_file)

C1_Witness ==
  \E f \in Slots : /\ NoPutFilp(f) /\ hist[f].get_file = 2 /\ hist[f].fput = 3
                   /\ Tr(f, "__fput") = 1

\* the contexts that saw their decrement give zero and have not finished
Runners(f) == {t \in Threads : pc[t] \in {"fput_last", "put_filp_last"} /\ tf[t] = f}

\* C2: however the fput and put_filp calls of the holders of one file
\* interleave, at most one decrement gives zero, at most one context is in the
\* teardown/free path, the path runs at most once, and it runs only for the
\* context whose decrement gave zero.
C2_OneTeardown ==
  \A f \in Slots :
    /\ hist[f].zero <= 1
    /\ Cardinality(Runners(f)) <= 1
    /\ Tr(f, "security_file_free") <= 1
    /\ Tr(f, "file_free") <= 1
    /\ (Runners(f) # {} => /\ hist[f].zero = 1 /\ file[f].f_count = 0
                           /\ NoTeardownStep(f) /\ Tr(f, "file_free") = 0)
    /\ (Tr(f, "security_file_free") = 1 => hist[f].zero = 1 /\ Runners(f) = {})

C2_Witness ==
  \E f \in Slots : /\ hist[f].raced /\ hist[f].zero = 1 /\ Tr(f, "file_free") = 1
                   /\ hist[f].fput >= 1 /\ hist[f].put_filp >= 1

\* C3: a file whose f_count is above zero has had no teardown step executed,
\* also after fput calls on it have returned.
C3_NoTeardownWithoutZero ==
  \A f \in Slots : file[f].f_count > 0 => NoTeardownStep(f)

C3_Witness ==
  \E f \in Slots : file[f].f_count > 0 /\ hist[f].fput >= 1 /\ NoTeardownStep(f)

\* C4 as stated: an unprivileged get_empty_filp entered with the exact count
\* at or above max_files returns NULL and leaves the counter as it was.
C4_AsStated ==
  \A t \in Threads :
    pc[t] = "gef_ret" /\ ~cap[t] /\ snap[t].sum >= max_files
      => ret[t] = NULL /\ Sum = snap[t].sum

\* C4: an unprivileged get_empty_filp entered with both the approximate count
\* (get_nr_files) and the exact count at or above max_files returns NULL by
\* the over path and leaves the counter as it was.
C4_AdmissionCeiling ==
  \A t \in Threads :
    pc[t] = "gef_ret" /\ ~cap[t] /\ snap[t].sum >= max_files
                      /\ snap[t].approx >= max_files
      => ret[t] = NULL /\ snap[t].exit = "over" /\ Sum = snap[t].sum

C4_Witness ==
  \E t \in Threads :
    /\ pc[t] = "gef_ret" /\ ~cap[t] /\ snap[t].sum >= max_files
    /\ snap[t].approx >= max_files /\ snap[t].exit = "over" /\ Sum = max_files

\* C5: a get_empty_filp by a caller with CAP_SYS_ADMIN never takes the slow
\* check nor the over path; it fails only by kmem_cache_zalloc or by
\* security_file_alloc, and when it returns a file the exact count is one
\* more than at entry, also above max_files.
C5_PrivilegedOvercommit ==
  \A t \in Threads :
    cap[t] =>
      /\ pc[t] \notin {"gef_slow", "gef_over"}
      /\ snap[t].exit # "over"
      /\ (pc[t] = "gef_ret" /\ ret[t] = NULL => snap[t].exit \in {"nomem", "denied"})
      /\ (pc[t] = "gef_ret" /\ ret[t] # NULL => Sum = snap[t].sum + 1)

C5_Witness ==
  \E t \in Threads :
    /\ cap[t] /\ pc[t] = "gef_ret" /\ ret[t] # NULL
    /\ snap[t].approx >= max_files /\ snap[t].sum = max_files /\ Sum = max_files + 1

\* C6: in every __fput, eventpoll_release comes before f_op->fasync(-1, ...)
\* when that is called, and both come before f_path and f_inode are cleared.
C6_TeardownOrdering ==
  \A f \in Slots :
    Tr(f, "__fput") > 0 =>
      /\ At(f, "eventpoll_release") > 0
      /\ At(f, "eventpoll_release") < At(f, "clear_f_path")
      /\ (Tr(f, "fasync") > 0 =>
            /\ At(f, "eventpoll_release") < At(f, "fasync")
            /\ At(f, "fasync") < At(f, "clear_f_path"))

C6_Witness ==
  \E f \in Slots : Tr(f, "fasync") = 1 /\ Tr(f, "clear_f_path") = 1

\* C7 as stated: two runs of drop_file_write_access on one file call
\* put_write_access at most once.
C7_AsStated ==
  \A f \in Slots : Tr(f, "drop_file_write_access") >= 2 => Tr(f, "put_write_access") <= 1

\* C7: however often drop_file_write_access runs on one file, mnt_drop_write
\* is called at most once for it (the file_check_writeable test stops the
\* later runs), while put_write_access is called by every run.
C7_IdempotentMountDrop ==
  \A f \in Slots :
    /\ Tr(f, "mnt_drop_write") <= 1
    /\ mnt_writers[f] >= 0
    /\ Tr(f, "put_write_access") = Tr(f, "drop_file_write_access")

C7_Witness ==
  \E f \in Slots : /\ Tr(f, "drop_file_write_access") >= 2 /\ inode[f].kind = "REG"
                   /\ Tr(f, "mnt_drop_write") = 1

\* a file opened for write on a regular inode, after its __fput
WrittenRegularGone(f) ==
  /\ file[f].st = "rcu" /\ Tr(f, "__fput") = 1
  /\ FMODE_WRITE \in file[f].f_mode /\ inode[f].kind = "REG"

\* C8 as stated: over the life of a file opened for write on a regular inode
\* put_write_access and mnt_drop_write are each called exactly once, also
\* when write access was dropped before the last fput.
C8_AsStated ==
  \A f \in Slots :
    WrittenRegularGone(f) => Tr(f, "put_write_access") = 1 /\ Tr(f, "mnt_drop_write") = 1

\* C8: over the life of a file opened for write on a regular inode
\* mnt_drop_write is called exactly once and the mount's writer count is back
\* at its value before the open; when drop_file_write_access ran before the
\* last fput, __fput's own run skips mnt_drop_write; put_write_access is
\* called once by every run of drop_file_write_access, so exactly once only
\* when no earlier run took place.
C8_WriteDropOnce ==
  \A f \in Slots :
    WrittenRegularGone(f) =>
      /\ Tr(f, "mnt_drop_write") = 1
      /\ mnt_writers[f] = 0
      /\ Tr(f, "put_write_access") = Tr(f, "drop_file_write_access")
      /\ (At(f, "drop_file_write_access") > At(f, "__fput")
            => Tr(f, "put_write_access") = 1)
      /\ (At(f, "drop_file_write_access") < At(f, "__fput")
            => At(f, "mnt_drop_write") < At(f, "__fput"))

C8_Witness ==
  \E f \in Slots : /\ WrittenRegularGone(f)
                   /\ At(f, "drop_file_write_access") < At(f, "__fput")
                   /\ Tr(f, "mnt_drop_write") = 1

\* C9: when security_file_alloc denies the file, get_empty_filp returns NULL
\* with the exact count at its value at entry, no teardown step has run for
\* the file, and from its allocation on its f_count never left zero and no
\* holder had a reference to it.
C9_PolicyDenial ==
  \A t \in Threads :
    /\ pc[t] \in {"gef_inc", "gef_sec"} =>
         file[tf[t]].f_count = 0 /\ refs[tf[t]] = 0
    /\ pc[t] = "gef_ret" /\ snap[t].exit = "denied" =>
         /\ ret[t] = NULL /\ Sum = snap[t].sum
         /\ file[tf[t]].f_count = 0 /\ refs[tf[t]] = 0
         /\ NoTeardownStep(tf[t])

C9_Witness ==
  \E t \in Threads :
    /\ pc[t] = "gef_ret" /\ snap[t].exit = "denied" /\ snap[t].sum >= 1
    /\ trace[tf[t]] = <<"file_free">>

\* C10: when kmem_cache_zalloc returns NULL, get_empty_filp returns NULL with
\* the exact count at its value at entry and without a get_cred call.
C10_PoolExhaustion ==
  \A t \in Threads :
    pc[t] = "gef_ret" /\ snap[t].exit = "nomem"
      => ret[t] = NULL /\ Sum = snap[t].sum /\ snap[t].cred = 0 /\ tf[t] = NULL

C10_Witness ==
  \E t \in Threads :
    /\ pc[t] = "gef_ret" /\ snap[t].exit = "nomem" /\ FreeSlots = {}
    /\ Sum = snap[t].sum /\ Sum >= 1

\* the files that were counted by get_empty_filp and whose memory is not back
\* in the filp cache
Admitted == {f \in Slots : file[f].st # "pool" /\ file[f].f_cred}
Counted == {f \in Slots : file[f].st = "live" /\ file[f].f_cred}

\* C11 as stated: the exact count is at least the number of counted files
\* whose memory has not been returned to the cache.
C11_AsStated == Sum >= Cardinality(Admitted)

\* C11: the decrement that pairs with the increment of get_empty_filp is made
\* by file_free, in the releasing call itself: the exact count equals the
\* number of counted files file_free has not been called for, a file waiting
\* for its grace period is no longer counted, and file_free_rcu leaves the
\* counter as it is.
C11_CountAtFileFree ==
  /\ Sum = Cardinality(Counted)
  /\ \A f \in Slots : file[f].st = "rcu" => Tr(f, "file_free") = 1 /\ f \notin Counted

C11_Witness ==
  \E f \in Slots : /\ file[f].st = "rcu" /\ Tr(f, "__fput") = 1 /\ Tr(f, "file_free") = 1
                   /\ Sum = 0 /\ Cardinality(Admitted) = 1

\* C12: put_cred is called by file_free_rcu only: every file that get_cred
\* was called for holds its reference until its memory goes back to the
\* cache, so also through all of __fput and put_filp and while it waits for
\* the grace period, and the references held are exactly those of such files
\* (none released twice, none kept after reclamation).
C12_CredHeldUntilReclaim ==
  /\ cred_usage = Cardinality({f \in Slots : file[f].f_cred})
  /\ \A f \in Slots :
       /\ file[f].st = "pool" => ~file[f].f_cred
       /\ Tr(f, "file_free") > 0 => file[f].st = "rcu" /\ file[f].f_cred /\ cred_usage >= 1
       /\ Runners(f) # {} => file[f].f_cred /\ cred_usage >= 1

C12_Witness ==
  \E f \in Slots : /\ file[f].st = "rcu" /\ Tr(f, "ima_file_free") = 1
                   /\ Tr(f, "mntput") = 1 /\ file[f].f_cred /\ cred_usage = 1

\* C13: the memory of a struct file goes back to the filp cache only when
\* every read-side critical section under way at file_free's call_rcu has
\* ended: a reader inside its section never holds a pointer to a struct file
\* that is back in the cache, and a file whose callback is still waiting for
\* a reader is not in the cache.
C13_DeferredReclamation ==
  /\ \A r \in Readers :
       rdr[r].in /\ rdr[r].ptr # NULL => file[rdr[r].ptr].st \in {"live", "rcu"}
  /\ \A f \in Slots :
       (\E r \in Readers : rdr[r].in /\ rdr[r].ptr = f) => ~GracePeriodOver(f)

C13_Witness ==
  \E r \in Readers :
    /\ rdr[r].in /\ rdr[r].ptr # NULL /\ file[rdr[r].ptr].st = "rcu"
    /\ Tr(rdr[r].ptr, "__fput") = 1 /\ ~GracePeriodOver(rdr[r].ptr)
    /\ \E q \in Readers : rdr[q].in /\ rdr[r].ptr \in rdr[q].pre

\* a file released by put_filp only, after the put_filp whose decrement gave
\* zero has returned
PutFilpOnly(f) ==
  /\ hist[f].zero = 1 /\ Runners(f) = {}
  /\ hist[f].put_filp >= 1 /\ hist[f].fput = 0
  /\ \A t \in Threads : ~(pc[t] = "fput_dec" /\ tf[t] = f)
PutFilpDone(f) == PutFilpOnly(f) /\ file[f].st # "pool"

\* C14 as stated: when put_filp has returned after its decrement gave zero,
\* the credentials are released and the memory is back in the filp cache.
C14_AsStated ==
  \A f \in Slots :
    PutFilpOnly(f) => file[f].st = "pool" /\ ~file[f].f_cred

\* C14: when put_filp has returned after its decrement gave zero, of the
\* teardown steps only security_file_free has run, file_free has run once
\* (the counter no longer counts the file), and the release of the
\* credentials and the return of the memory are left to the RCU callback: the
\* file waits for its grace period with its credentials still held.
C14_DegradedRelease ==
  \A f \in Slots :
    PutFilpDone(f) =>
      /\ Tr(f, "security_file_free") = 1 /\ Tr(f, "file_free") = 1
      /\ \A e \in TeardownSteps \ {"security_file_free"} : Tr(f, e) = 0
      /\ file[f].st = "rcu" /\ file[f].f_cred /\ cred_usage >= 1
      /\ f \notin Counted

C14_Witness ==
  \E f \in Slots : /\ PutFilpDone(f) /\ file[f].st = "rcu" /\ file[f].f_cred
                   /\ trace[f] = <<"security_file_free", "file_free">>

\* C15: after the calls get_empty_filp/alloc_file, get_file, fput, fput on one
\* file, __fput has run exactly once, by the second fput; and every file
\* whose f_count was decremented to zero is eventually given back to the filp
\* cache, under fair scheduling of the releasing context and of the RCU
\* callback.
C15_EventualReclamation ==
  /\ [](\A f \in Slots :
          /\ hist[f].get_file = 1 /\ hist[f].fput = 1 /\ NoPutFilp(f)
               => Tr(f, "__fput") = 0
          /\ hist[f].get_file = 1 /\ hist[f].fput = 2 /\ NoPutFilp(f)
               => Tr(f, "__fput") = 1)
  /\ \A f \in Slots : (hist[f].zero >= 1) ~> (file[f].st = "pool")

C15_Witness ==
  \E f \in Slots : /\ hist[f].get_file = 1 /\ hist[f].fput = 2 /\ NoPutFilp(f)
                   /\ Tr(f, "__fput") = 1 /\ file[f].st = "rcu" /\ file[f].f_count = 0

\* the step of the teardown sequence a call of __fput belongs to: 1 watcher
\* notification, 2 event-interest release, 3 lock release, 4 async-signal
\* disable, 5 release callback, 6 security/audit hooks, 7 write-claim drop,
\* 8 read-count decrement, 9 association clearing, 10 citation release; 0 for
\* the calls that are none of the ten
StepNo(e) ==
  CASE e = "fsnotify_close" -> 1
    [] e = "eventpoll_release" -> 2
    [] e = "locks_remove_file" -> 3
    [] e = "fasync" -> 4
    [] e = "release" -> 5
    [] e \in {"security_file_free", "ima_file_free"} -> 6
    [] e \in {"drop_file_write_access", "put_write_access", "mnt_drop_write"} -> 7
    [] e = "i_readcount_dec" -> 8
    [] e = "clear_f_path" -> 9
    [] e \in {"dput", "mntput"} -> 10
    [] OTHER -> 0

\* the positions of the calls made by __fput in the record of file f
InFput(f) == {i \in 1..Len(trace[f]) : At(f, "__fput") > 0 /\ i > At(f, "__fput")}

AssocReaders ==
  {"fsnotify_close", "release", "cdev_put", "i_readcount_dec",
   "drop_file_write_access", "put_write_access", "mnt_drop_write"}

\* C17: in every __fput the calls that read f_path or the inode come before
\* f_path and f_inode are cleared and none dereferences the cleared f_path;
\* file_free follows the clearing, and dput and mntput follow file_free, each
\* called once on the dentry and mount saved in locals at entry.
C17_AssociationCleared ==
  \A f \in Slots :
    Tr(f, "__fput") >= 1 =>
      /\ Tr(f, "NULL_deref") = 0
      /\ Tr(f, "clear_f_path") = 1 /\ ~file[f].f_path
      /\ \A i \in InFput(f) : trace[f][i] \in AssocReaders => i < At(f, "clear_f_path")
      /\ At(f, "clear_f_path") < At(f, "file_free")
      /\ At(f, "file_free") < At(f, "dput")
      /\ At(f, "dput") < At(f, "mntput")
      /\ Tr(f, "dput") = 1 /\ Tr(f, "mntput") = 1

C17_Witness ==
  \E f \in Slots :
    /\ Tr(f, "__fput") = 1 /\ Tr(f, "mnt_drop_write") = 1 /\ Tr(f, "release") = 1
    /\ ~file[f].f_path /\ file[f].st = "rcu"
    /\ At(f, "file_free") < At(f, "dput") /\ At(f, "dput") < At(f, "mntput")

\* a step of context t that is the decrement of a release call on a file
\* with more than one reference left
NonzeroDec(t) ==
  /\ pc[t] \in {"fput_dec", "put_filp_dec"} /\ pc'[t] # pc[t]
  /\ file[tf[t]].f_count > 1

\* C18: the decrement of an fput or put_filp that leaves f_count above zero
\* is the whole call: the call returns, f_count is one less, and the rest of
\* the struct file, its inode's read and write counts, the mount's writer
\* count, the live counter, the credentials, the record of calls and every
\* other struct file are as before.
C18_NonzeroReleaseFrame ==
  [][\A t \in Threads :
       NonzeroDec(t) =>
         /\ pc'[t] = "idle"
         /\ file' = [file EXCEPT ![tf[t]].f_count = @ - 1]
         /\ file'[tf[t]].f_count > 0 /\ file'[tf[t]].st = "live"
         /\ UNCHANGED <<trace, inode, mnt_writers, nr_files, cred_usage, refs,
                        max_files, old_max, msgs>>]_vars

C18_Witness ==
  \E f \in Slots :
    /\ hist[f].fput = 1 /\ hist[f].put_filp = 1 /\ hist[f].get_file = 2
    /\ file[f].f_count = 1 /\ file[f].st = "live" /\ file[f].f_path
    /\ NoTeardownStep(f) /\ f \in Counted /\ hist[f].raced

\* the calls every __fput makes, whatever the file
AlwaysSteps ==
  {"fsnotify_close", "eventpoll_release", "locks_remove_file", "security_file_free",
   "ima_file_free", "fops_put", "put_pid", "clear_f_path", "file_free", "dput",
   "mntput"}

\* C19: a file whose f_count was decremented to zero is either still in the
\* hands of the context that decremented it, which has not returned and has
\* not begun the teardown, or that context has returned and the whole of
\* __fput (or of put_filp's body) has run with the RCU callback queued; a
\* returned release never leaves a file with f_count zero and the teardown
\* not begun or half done.
C19_SynchronousTeardown ==
  \A f \in Slots :
    hist[f].zero >= 1 =>
      \/ /\ Cardinality(Runners(f)) = 1
         /\ file[f].st = "live" /\ NoTeardownStep(f) /\ Tr(f, "file_free") = 0
      \/ /\ Runners(f) = {}
         /\ file[f].st = "rcu" /\ Tr(f, "file_free") = 1
         /\ Tr(f, "security_file_free") = 1
         /\ (PutFilpOnly(f) => Tr(f, "__fput") = 0)
         /\ (Tr(f, "__fput") = 1 =>
               /\ \A e \in AlwaysSteps : Tr(f, e) = 1
               /\ ~file[f].f_path
               /\ trace[f][Len(trace[f])] = "mntput")
         /\ (hist[f].put_filp = 0 => Tr(f, "__fput") = 1)

C19_Witness ==
  \E f \in Slots :
    /\ hist[f].zero = 1 /\ Runners(f) = {} /\ hist[f].put_filp = 0
    /\ \A t \in Threads : pc[t] = "idle"
    /\ file[f].st = "rcu" /\ file[f].f_count = 0
    /\ Tr(f, "__fput") = 1 /\ trace[f][Len(trace[f])] = "mntput"

\* a file after the __fput that called its release callback
ReleaseCalled(f) == Tr(f, "__fput") = 1 /\ Tr(f, "release") = 1 /\ Runners(f) = {}

\* C20: whatever the release callback returned, __fput went on as it does
\* after a successful one: the calls that follow release are all made, the
\* conditional ones exactly when the file's mode and inode ask for them, the
\* inode's and the mount's counts are back at their values before the open,
\* the RCU callback is queued, and fput returned nothing to its caller.
C20_ReleaseErrorIgnored ==
  \A f \in Slots :
    ReleaseCalled(f) =>
      /\ \A e \in AlwaysSteps : Tr(f, e) = 1 /\ (e # "fsnotify_close" /\
             e # "eventpoll_release" /\ e # "locks_remove_file" => At(f, "release") < At(f, e))
      /\ Tr(f, "cdev_put") = (IF S_ISCHR(inode[f]) /\ inode[f].i_cdev
                                 /\ FMODE_PATH \notin file[f].f_mode THEN 1 ELSE 0)
      /\ Tr(f, "i_readcount_dec") =
           (IF file[f].f_mode \cap {FMODE_READ, FMODE_WRITE} = {FMODE_READ} THEN 1 ELSE 0)
      /\ Tr(f, "put_write_access") = (IF FMODE_WRITE \in file[f].f_mode THEN 1 ELSE 0)
      /\ Tr(f, "mnt_drop_write") =
           (IF FMODE_WRITE \in file[f].f_mode /\ ~special_file(inode[f]) THEN 1 ELSE 0)
      /\ inode[f].i_readcount = 0 /\ inode[f].i_writecount = 0 /\ mnt_writers[f] = 0
      /\ file[f].st = "rcu" /\ ~file[f].f_path /\ f \notin Counted
      /\ \A t \in Threads : tf[t] # f /\ ret[t] = NULL

C20_Witness ==
  \E f \in Slots :
    /\ ReleaseCalled(f) /\ hist[f].release_rc # 0
    /\ Tr(f, "mnt_drop_write") = 1 /\ Tr(f, "mntput") = 1 /\ file[f].st = "rcu"

\* C21: however the rejected get_empty_filp calls interleave, the "file-max
\* limit reached" message is never printed twice for the same recorded
\* maximum old_max, and it is printed only for a count above the old_max
\* recorded at the moment it is printed.
C21_AsStated ==
  /\ \A x \in msgs : ~x.twice
  /\ \A t \in Threads : pc[t] = "gef_print" => snap[t].nr > old_max

\* C22: a get_empty_filp that returns a file returns it with f_count exactly
\* 1 and with the exact count one above its value at entry, having called
\* get_cred once; f_count is still 0 while security_file_alloc has not allowed
\* the file.
C22_SuccessfulAcquire ==
  \A t \in Threads :
    /\ pc[t] \in {"gef_inc", "gef_sec"} => file[tf[t]].f_count = 0
    /\ pc[t] = "gef_ret" /\ ret[t] # NULL =>
         /\ ret[t] = tf[t] /\ snap[t].exit = "ok"
         /\ file[ret[t]].f_count = 1 /\ file[ret[t]].st = "live"
         /\ Sum = snap[t].sum + 1 /\ snap[t].cred = 1
         /\ ret[t] \in Counted

C22_Witness ==
  \E t \in Threads :
    /\ pc[t] = "gef_ret" /\ ret[t] # NULL /\ ~cap[t]
    /\ file[ret[t]].f_count = 1 /\ snap[t].sum = 1 /\ Sum = 2

\* the labels a failed get_empty_filp leaves by: the ceiling, kmem_cache_zalloc
\* returning NULL, security_file_alloc denying the file
FailureExits == {"over", "nomem", "denied"}
Failed(t) == pc[t] = "gef_ret" /\ snap[t].exit \in FailureExits

\* C23 as stated: two get_empty_filp calls that failed for different causes
\* return different values to their callers.
C23_AsStated ==
  \A t, u \in Threads :
    Failed(t) /\ Failed(u) /\ snap[t].exit # snap[u].exit => ret[t] # ret[u]

\* C23: a get_empty_filp that fails returns NULL whatever the cause, so the
\* value returned tells a failure from a success and nothing more; a file is
\* returned exactly when the call left by the success path.
C23_FailureIsNull ==
  \A t \in Threads :
    pc[t] = "gef_ret" =>
      /\ snap[t].exit \in FailureExits \cup {"ok"}
      /\ (snap[t].exit \in FailureExits <=> ret[t] = NULL)
      /\ (snap[t].exit = "ok" <=> ret[t] # NULL)

C23_Witness ==
  \E t, u \in Threads :
    /\ Failed(t) /\ Failed(u) /\ snap[t].exit = "over" /\ snap[u].exit = "denied"
    /\ ret[t] = NULL /\ ret[u] = NULL

\* where a struct file is in its life: 0 in the filp cache (not yet allocated,
\* or reclaimed), 1 allocated and not yet counted, 2 counted in nr_files,
\* 3 file_free called and the callback queued
Phase(f) ==
  CASE file[f].st = "pool" -> 0
    [] file[f].st = "live" /\ ~file[f].f_cred -> 1
    [] file[f].st = "live" /\ file[f].f_cred -> 2
    [] OTHER -> 3

\* C24: a struct file goes from allocated to counted, from counted to
\* file_free called (once), and from there back to the filp cache, in this
\* order and by no other way; the last move is made by the RCU callback alone,
\* in a step of no releasing context, once the grace period is over.
C24_ObjectStateMachine ==
  [][\A f \in Slots :
       /\ Phase(f)' # Phase(f) =>
            \/ Phase(f) = 0 /\ Phase(f)' = 1
            \/ Phase(f) = 1 /\ Phase(f)' = 2
            \/ Phase(f) = 2 /\ Phase(f)' = 3 /\ Tr(f, "file_free")' = 1
                            /\ Tr(f, "file_free") = 0
            \/ Phase(f) = 3 /\ Phase(f)' = 0 /\ GracePeriodOver(f)
                            /\ UNCHANGED <<pc, tf, refs, nr_files>>
       /\ Phase(f) = 3 /\ Phase(f)' = 3 => UNCHANGED <<file[f], trace[f]>>]_vars

C24_Witness ==
  \E f, g \in Slots :
    /\ Phase(f) = 3 /\ trace[f] = <<"file_free">> /\ ~GracePeriodOver(f)
    /\ Phase(g) = 3 /\ Tr(g, "__fput") = 1

\* the release calls on file f that have given up their reference and not
\* yet decremented f_count
InFlight(f) ==
  Cardinality({t \in Threads : pc[t] \in {"fput_dec", "put_filp_dec"} /\ tf[t] = f})

\* C25: with get_file, fput and put_filp called by holders of a reference
\* only, f_count never goes below zero, it counts the references held plus
\* those being given up, and after a decrement has brought it to zero it stays
\* zero until the memory is reclaimed.
C25_RefcountInvariant ==
  \A f \in Slots :
    /\ file[f].f_count >= 0
    /\ refs[f] > 0 => file[f].f_count = refs[f] + InFlight(f)
    /\ hist[f].zero >= 1 => file[f].f_count = 0 /\ refs[f] = 0 /\ InFlight(f) = 0

C25_Witness ==
  \E f \in Slots :
    /\ hist[f].zero = 1 /\ file[f].f_count = 0 /\ file[f].st = "rcu"
    /\ hist[f].get_file = 2 /\ hist[f].raced /\ hist[f].fput + hist[f].put_filp = 3

\* the positions of get_empty_filp behind the first test when it did not pass
OverPath == {"gef_slow", "gef_over", "gef_print", "gef_store"}

\* C26: a get_empty_filp that read an approximate count below max_files goes
\* straight to the allocation, for a privileged and an unprivileged caller
\* alike and also when the exact sum is at or above max_files: it never
\* computes the exact sum and never leaves by the over label; the exact sum is
\* computed only by an unprivileged caller that read an approximate count at
\* or above max_files.
C26_FastPath ==
  \A t \in Threads :
    /\ pc[t] # "idle" /\ snap[t].exit # "none" /\ snap[t].approx < max_files =>
         pc[t] \notin OverPath /\ snap[t].exit # "over"
    /\ pc[t] \in OverPath \/ snap[t].exit = "over" =>
         snap[t].approx >= max_files /\ ~cap[t]

C26_Witness ==
  \E t \in Threads :
    /\ pc[t] = "gef_ret" /\ ret[t] # NULL /\ ~cap[t]
    /\ snap[t].approx < max_files /\ snap[t].sum >= max_files
    /\ Sum = snap[t].sum + 1

\* a file after its __fput has returned
TornDown(f) == Tr(f, "__fput") = 1 /\ Runners(f) = {} /\ file[f].st = "rcu"

\* C27: __fput calls f_op->fasync(-1, file, 0) exactly when FASYNC is set and
\* the operation table exists and has a fasync entry, and f_op->release
\* exactly when the table exists and has a release entry; whether or not
\* either is called, every unconditional call of the chain is made once and
\* in its place after them.
C27_ConditionalSteps ==
  \A f \in Slots :
    TornDown(f) =>
      /\ Tr(f, "fasync") =
           (IF file[f].FASYNC /\ file[f].f_op.present /\ file[f].f_op.fasync
            THEN 1 ELSE 0)
      /\ Tr(f, "release") =
           (IF file[f].f_op.present /\ file[f].f_op.release THEN 1 ELSE 0)
      /\ \A e \in AlwaysSteps : Tr(f, e) = 1
      /\ At(f, "locks_remove_file") < At(f, "security_file_free")
      /\ \A e \in {"fasync", "release"} :
           Tr(f, e) = 1 => /\ At(f, "locks_remove_file") < At(f, e)
                           /\ At(f, e) < At(f, "security_file_free")

C27_Witness ==
  \E f \in Slots :
    /\ TornDown(f) /\ file[f].FASYNC /\ file[f].f_op.present
    /\ ~file[f].f_op.fasync /\ ~file[f].f_op.release
    /\ Tr(f, "fasync") = 0 /\ Tr(f, "release") = 0 /\ Tr(f, "mntput") = 1

\* opened for reading and not for writing
ReadOnly(f) == file[f].f_mode \cap {FMODE_READ, FMODE_WRITE} = {FMODE_READ}

\* C28 as stated (last clause): the read count is decremented for regular
\* inodes only.
C28_AsStated ==
  \A f \in Slots : Tr(f, "i_readcount_dec") > 0 => ~special_file(inode[f])

\* C28: alloc_file increments the inode's read count exactly when the mode
\* has FMODE_READ and not FMODE_WRITE, __fput decrements it once under the
\* same condition, and after the last fput the read count is back at its
\* value before alloc_file; both are done whatever the kind of the inode,
\* regular or special.
C28_ReadCountPairing ==
  \A f \in Slots :
    /\ inode[f].i_readcount = Tr(f, "i_readcount_inc") - Tr(f, "i_readcount_dec")
    /\ file[f].f_path =>
         /\ Tr(f, "i_readcount_inc") = (IF ReadOnly(f) THEN 1 ELSE 0)
         /\ Tr(f, "i_readcount_dec") = 0
    /\ TornDown(f) =>
         /\ Tr(f, "i_readcount_inc") = (IF ReadOnly(f) THEN 1 ELSE 0)
         /\ Tr(f, "i_readcount_dec") = Tr(f, "i_readcount_inc")
         /\ inode[f].i_readcount = 0

C28_Witness ==
  \E f \in Slots :
    /\ TornDown(f) /\ ReadOnly(f) /\ special_file(inode[f])
    /\ Tr(f, "i_readcount_inc") = 1 /\ Tr(f, "i_readcount_dec") = 1
    /\ inode[f].i_readcount = 0

\* the calls of e made by __fput itself for file f
InTeardown(f, e) == Cardinality({i \in InFput(f) : trace[f][i] = e})

\* the file held the mount's write claim when its __fput began: it was taken
\* at alloc_file and no earlier drop_file_write_access released it
HeldClaim(f) ==
  /\ ~special_file(inode[f])
  /\ \A i \in 1..Len(trace[f]) : trace[f][i] = "mnt_drop_write" => i \in InFput(f)

\* C29: the __fput of a file opened with FMODE_WRITE calls put_write_access
\* exactly once, for a regular and for a special inode; it calls
\* mnt_drop_write and marks the claim released exactly when the inode is not
\* special and the file still held the claim; the __fput of a file without
\* FMODE_WRITE touches neither the inode's write count nor the mount's writer
\* count.
C29_WriteDropShape ==
  \A f \in Slots :
    TornDown(f) =>
      IF FMODE_WRITE \in file[f].f_mode
      THEN /\ InTeardown(f, "drop_file_write_access") = 1
           /\ InTeardown(f, "put_write_access") = 1
           /\ InTeardown(f, "mnt_drop_write") = (IF HeldClaim(f) THEN 1 ELSE 0)
           /\ special_file(inode[f]) => file[f].f_mnt_write_state = {}
           /\ ~special_file(inode[f]) =>
                file[f].f_mnt_write_state = {FILE_MNT_WRITE_TAKEN, FILE_MNT_WRITE_RELEASED}
      ELSE /\ Tr(f, "drop_file_write_access") = 0 /\ Tr(f, "put_write_access") = 0
           /\ Tr(f, "mnt_drop_write") = 0 /\ Tr(f, "mnt_clone_write") = 0
           /\ inode[f].i_writecount = 0 /\ mnt_writers[f] = 0
           /\ file[f].f_mnt_write_state = {}

C29_Witness ==
  \E f \in Slots :
    /\ TornDown(f) /\ FMODE_WRITE \in file[f].f_mode /\ ~special_file(inode[f])
    /\ ~HeldClaim(f) /\ InTeardown(f, "put_write_access") = 1
    /\ InTeardown(f, "mnt_drop_write") = 0 /\ Tr(f, "mnt_drop_write") = 1

Booted == \A t \in Threads : pc[t] # "boot"
\* mempages * (PAGE_SIZE / 1024) as an unsigned long holds it
Kilobytes == ul_mul(mempages, PAGE_SIZE \div 1024)
\* q is the quotient of the unsigned long a by 10
TenthOf(a, q) ==
  /\ a.hi - 10 * ulong(q).hi \in 0..9
  /\ (a.hi - 10 * ulong(q).hi) * Half + (a.lo - 10 * ulong(q).lo) \in 0..9

\* C31: the step files_init takes leaves max_files equal to the larger of
\* NR_FILE and a tenth of mempages * (PAGE_SIZE / 1024), the product taken in
\* unsigned long arithmetic; so max_files is not below NR_FILE, and the exact
\* sum of the counter nr_files is 0.
C31_CeilingInitialised ==
  [][~Booted /\ Booted' =>
       /\ max_files' >= NR_FILE
       /\ \/ max_files' = NR_FILE /\ ~ul_gt(Kilobytes, ulong(10 * NR_FILE + 9))
          \/ max_files' > NR_FILE /\ TenthOf(Kilobytes, max_files')
       /\ percpu_counter_sum(nr_files') = 0]_vars

\* files_init has run for a page count whose tenth of kilobytes lies above
\* NR_FILE, without and with a product that wrapped
C31_Witness ==
  /\ Booted
  /\ \/ max_files = 104857 /\ mempages = ulong(262144)
     \/ max_files = 8193 /\ mempages.hi >= Half \div 4

\* ---------------------------------------------------------------- C32
\* the files get_empty_filp has made its percpu_counter_inc for and file_free
\* has not been called for
Incremented == {f \in Slots : file[f].f_cred /\ Tr(f, "file_free") = 0}
\* the contexts that make the increment, and the files file_free is called
\* for, in the step taken
IncSteps == {t \in Threads : pc[t] = "gef_inc" /\ pc'[t] = "gef_sec"}
FreeSteps == {f \in Slots : Tr(f, "file_free") = 0 /\ Tr(f, "file_free")' = 1}

\* C32: in every step, whatever the interleaving of get_empty_filp, put_filp
\* and the RCU callbacks, the exact sum of nr_files is the number of files
\* incremented for and not yet passed to file_free, so it is never negative;
\* it goes up by one exactly in a step that makes the increment for a file
\* and down by one exactly in a step that calls file_free, which happens once
\* per file; when no file is left in use and no call is under way it is 0.
C32_CounterConservation ==
  [][/\ Sum = Cardinality(Incremented) /\ Sum >= 0
     /\ Sum' = Sum + Cardinality(IncSteps) - Cardinality(FreeSteps)
     /\ \A f \in Slots : Tr(f, "file_free")' <= 1
     /\ (\A f \in Slots : file[f].st # "live") /\ (\A t \in Threads : pc[t] = "idle")
          => Sum = 0]_vars

\* one file went through file_free and waits for its grace period, a second
\* is counted while put_filp is about to call file_free for it, and the other
\* context has allocated a third and is about to make the increment
C32_Witness ==
  /\ Sum = 1
  /\ \E f \in Slots : file[f].st = "rcu" /\ Tr(f, "file_free") = 1
  /\ \E t \in Threads : pc[t] = "gef_inc"
  /\ \E t \in Threads : pc[t] = "put_filp_last" /\ tf[t] \in Incremented

\* ---------------------------------------------------------------- C33
\* C33 as stated: with unprivileged callers only and max_files unchanged,
\* the exact count never exceeds max_files.
C33_AsStated == Sum <= max_files

\* C33: the ceiling bounds what each unprivileged call sees at its own check,
\* not the exact count: a call goes on to allocate only from the first check
\* with get_nr_files() below max_files or from the second with the exact sum
\* below max_files, it is turned away only at the second check with the exact
\* sum at or above max_files, and the increment is a later step of its own,
\* by one, so that calls checked before each other's increments take the
\* exact count above max_files.
C33_SoftCeiling ==
  [][/\ \A t \in Threads :
          /\ pc[t] = "idle" /\ pc'[t] = "gef_alloc" => get_nr_files < max_files
          /\ pc[t] = "gef_slow" /\ pc'[t] = "gef_alloc"
               => percpu_counter_sum_positive(nr_files) < max_files
          /\ pc[t] # "gef_over" /\ pc'[t] = "gef_over"
               => /\ pc[t] = "gef_slow" /\ get_nr_files >= max_files
                  /\ percpu_counter_sum_positive(nr_files) >= max_files
          /\ pc[t] \in {"idle", "gef_slow"} /\ pc'[t] # pc[t] => Sum' = Sum
     /\ Sum' > Sum => Sum' = Sum + 1 /\ IncSteps # {}
     /\ max_files' = max_files]_vars

\* both unprivileged calls were entered at an exact count below max_files,
\* both returned a file, and the exact count is above max_files
C33_Witness ==
  /\ Sum = max_files + 1
  /\ \A t \in Threads : /\ ~cap[t] /\ pc[t] = "gef_ret" /\ ret[t] # NULL
                         /\ snap[t].sum = max_files - 1

\* ---------------------------------------------------------------- C34
\* the files whose memory goes back to the filp cache in the step taken
Reclaimed == {f \in Slots : file[f].st = "rcu" /\ file[f].st' = "pool"}
Quiet == NoFile /\ \A t \in Threads : pc[t] = "idle"

\* C34: the references on the credentials go up by one exactly in the step
\* of get_empty_filp that calls get_cred and down by one exactly when
\* file_free_rcu gives a file's memory back, once per file that held one; a
\* call that left by the over label or for want of memory has taken none; a
\* call denied by security_file_alloc has taken one, which its file keeps
\* until file_free_rcu; a file ended by fput or by put_filp keeps its one
\* reference until then; and when every file is reclaimed none is left.
C34_CredBalance ==
  [][/\ cred_usage' = cred_usage + Cardinality(IncSteps) - Cardinality(Reclaimed)
     /\ \A f \in Reclaimed : file[f].f_cred /\ ~file[f].f_cred'
     /\ \A t \in Threads :
          pc[t] # "gef_ret" /\ pc'[t] = "gef_ret" =>
            /\ snap'[t].exit \in {"over", "nomem"} => snap'[t].cred = 0 /\ tf'[t] = NULL
            /\ snap'[t].exit \in {"denied", "ok"} =>
                  /\ snap'[t].cred = 1
                  /\ file'[tf'[t]].f_cred
                  /\ snap'[t].exit = "denied" => file'[tf'[t]].st = "rcu"
     /\ \A f \in Slots :
          Tr(f, "file_free")' = 1 => file'[f].f_cred /\ file'[f].st = "rcu"
     /\ cred_usage' >= 0
     /\ Quiet' => cred_usage' = 0]_vars

\* a file ended by fput and a file ended by put_filp both wait for their
\* grace period, each still holding its reference
C34_Witness ==
  /\ cred_usage = 2
  /\ \E f, g \in Slots :
       /\ file[f].st = "rcu" /\ Tr(f, "__fput") = 1 /\ file[f].f_cred
       /\ file[g].st = "rcu" /\ Tr(g, "__fput") = 0 /\ hist[g].put_filp = 1
       /\ file[g].f_cred

\* ---------------------------------------------------------------- C35
\* no other path than __fput has run drop_file_write_access on the file
NoEarlyDrop(f) ==
  Tr(f, "drop_file_write_access") = InTeardown(f, "drop_file_write_access")
\* the condition alloc_file and drop_file_write_access share
TakesClaim(f) == FMODE_WRITE \in file[f].f_mode /\ ~special_file(inode[f])
\* alloc_file has set the file up and no last fput has begun on it
Created(f) == file[f].st = "live" /\ file[f].f_path /\ Runners(f) = {}

\* C35: for a file from alloc_file on which only __fput runs
\* drop_file_write_access, mnt_clone_write was called once at creation if
\* the mode has FMODE_WRITE and the inode is not special and not at all
\* otherwise, mnt_drop_write is called by __fput once under the same
\* condition and not at all otherwise, and after __fput the mount's writer
\* count is what it was before the file was created; for a special inode
\* opened for write neither is ever called.
C35_MountClaimBalance ==
  \A f \in Slots :
    /\ Created(f) /\ NoEarlyDrop(f) =>
         /\ Tr(f, "mnt_clone_write") = (IF TakesClaim(f) THEN 1 ELSE 0)
         /\ Tr(f, "mnt_drop_write") = 0
         /\ mnt_writers[f] = (IF TakesClaim(f) THEN 1 ELSE 0)
    /\ TornDown(f) /\ NoEarlyDrop(f) =>
         /\ Tr(f, "mnt_clone_write") = (IF TakesClaim(f) THEN 1 ELSE 0)
         /\ Tr(f, "mnt_drop_write") = Tr(f, "mnt_clone_write")
         /\ InTeardown(f, "mnt_drop_write") = Tr(f, "mnt_drop_write")
         /\ mnt_writers[f] = 0
    /\ FMODE_WRITE \in file[f].f_mode /\ special_file(inode[f]) =>
         /\ Tr(f, "mnt_clone_write") = 0 /\ Tr(f, "mnt_drop_write") = 0
         /\ mnt_writers[f] = 0

\* a writable file on a regular inode, its claim taken at creation and
\* given back by its __fput, beside no earlier drop
C35_Witness ==
  \E f \in Slots :
    /\ TornDown(f) /\ NoEarlyDrop(f) /\ TakesClaim(f)
    /\ Tr(f, "mnt_clone_write") = 1 /\ InTeardown(f, "mnt_drop_write") = 1
    /\ mnt_writers[f] = 0 /\ hist[f].get_file >= 1

\* ---------------------------------------------------------------- C36
\* the step put_filp takes after its decrement gave zero, and the step
\* get_empty_filp takes at fail_sec
PutFilpZeroStep(t) == pc[t] = "put_filp_last" /\ pc'[t] # pc[t]
DeniedStep(t) == pc[t] = "gef_sec" /\ pc'[t] = "gef_ret" /\ ret'[t] = NULL

\* C36: the step of put_filp after its decrement gave zero calls
\* security_file_free and file_free and nothing else: none of the other calls
\* of __fput is made, the inode's read and write counts and the mount's
\* writer count stay, f_path, f_mode, f_op, FASYNC and the write claim mark
\* of the file stay as they were, whatever they are; the fail_sec step of
\* get_empty_filp calls file_free alone.
C36_AbbreviatedRelease ==
  [][\A t \in Threads :
       /\ PutFilpZeroStep(t) =>
            /\ trace'[tf[t]] = trace[tf[t]] \o <<"security_file_free", "file_free">>
            /\ file'[tf[t]] = [file[tf[t]] EXCEPT !.st = "rcu"]
            /\ UNCHANGED <<inode, mnt_writers, refs, cred_usage>>
            /\ \A g \in Slots \ {tf[t]} : file'[g] = file[g] /\ trace'[g] = trace[g]
       /\ DeniedStep(t) =>
            /\ trace'[tf[t]] = trace[tf[t]] \o <<"file_free">>
            /\ file'[tf[t]] = [file[tf[t]] EXCEPT !.st = "rcu"]
            /\ UNCHANGED <<inode, mnt_writers, refs, cred_usage>>]_vars

\* put_filp has ended a file alloc_file had opened for write on a regular
\* inode: the claims and the association are as alloc_file left them
C36_Witness ==
  \E f \in Slots :
    /\ PutFilpDone(f) /\ file[f].st = "rcu" /\ file[f].f_path
    /\ FMODE_WRITE \in file[f].f_mode /\ inode[f].kind = "REG"
    /\ mnt_writers[f] = 1 /\ inode[f].i_writecount = 1
    /\ Tr(f, "security_file_free") = 1 /\ Tr(f, "dput") = 0

\* ---------------------------------------------------------------- C37
\* the test __fput makes before cdev_put
HoldsCdev(f) ==
  /\ S_ISCHR(inode[f]) /\ inode[f].i_cdev
  /\ FMODE_PATH \notin file[f].f_mode

\* C37: cdev_put is called for a file at most once and by __fput only; after
\* __fput it has been called exactly if the inode is a character device
\* with i_cdev set and the file has no FMODE_PATH, and then after
\* security_file_free and ima_file_free and before f_path and f_inode are
\* cleared.
C37_CdevPut ==
  \A f \in Slots :
    /\ Tr(f, "cdev_put") <= 1
    /\ Tr(f, "cdev_put") = InTeardown(f, "cdev_put")
    /\ TornDown(f) =>
         /\ Tr(f, "cdev_put") = (IF HoldsCdev(f) THEN 1 ELSE 0)
         /\ HoldsCdev(f) =>
              /\ At(f, "security_file_free") < At(f, "cdev_put")
              /\ At(f, "ima_file_free") < At(f, "cdev_put")
              /\ At(f, "cdev_put") < At(f, "clear_f_path")
              /\ At(f, "cdev_put") < At(f, "file_free")

\* the last fput of a character device file with its cdev has called cdev_put
C37_Witness ==
  \E f \in Slots :
    /\ TornDown(f) /\ HoldsCdev(f) /\ Tr(f, "cdev_put") = 1
    /\ At(f, "ima_file_free") < At(f, "cdev_put")
    /\ At(f, "cdev_put") < At(f, "clear_f_path")

====
